---- MODULE Spec2Model ----
(***************************************************************************)
(* zenfeed-web: the read-state store (readStateStore), the grouping and    *)
(* filtering of a fetched result set and the desktop selection reconciler  *)
(* of the Past24h list component, as a state machine.                      *)
(*                                                                         *)
(* One action is one event handler (or one promise continuation) followed  *)
(* by the component's reactive flush: the `$:` blocks run once, in source  *)
(* order, after the handler has returned.                                  *)
(***************************************************************************)
EXTENDS Integers, Sequences, FiniteSets, TLC

(***************************************************************************)
(* Bounds of the model.                                                    *)
(***************************************************************************)
\* Date.now() ranges over 1..MaxClock
MaxClock == 2
\* number of /query requests issued in one behaviour
MaxFetches == 2
\* number of items marked read in one behaviour
MaxReads == 2
\* length of the lists of feeds given to groupFeeds and updateAvailableLabels
MaxItems == 3

(***************************************************************************)
(* Values.                                                                 *)
(***************************************************************************)
\* a null string (activeGroupName, initialActiveGroupName, an absent storage key)
NullName == "<null>"
\* $_("past24h.uncategorizedGroup")
uncategorizedGroup == "Uncategorized"
DEFAULT_GROUP_BY_LABEL == "source"

\* FeedVO | null : the null feed
NoFeed == [id |-> 0, time |-> 0, labels |-> [title |-> ""]]

\* the feeds the backend can return; id stands for getFeedItemId's hash of
\* the labels (distinct label sets, distinct ids)
FeedTable ==
    << [id |-> 1, time |-> 5, labels |-> [title |-> "A", source |-> "a", category |-> "x"]],
       [id |-> 2, time |-> 4, labels |-> [title |-> "B", source |-> "a", category |-> "x"]],
       [id |-> 3, time |-> 4, labels |-> [title |-> "C", source |-> "a", category |-> "y"]],
       [id |-> 4, time |-> 3, labels |-> [title |-> "D", source |-> "b"]],
       [id |-> 5, time |-> 2, labels |-> [title |-> "E", source |-> "c", category |-> "y"]] >>

ItemIds == {FeedTable[i].id : i \in DOMAIN FeedTable}

\* new Date(time) for a time string that is no date: Invalid Date (NaN)
InvalidDate == -1

\* feeds of any shape a backend can send: a time that is no date, a label
\* whose value is the empty string, a missing label
FeedPool ==
    << [id |-> 11, time |-> 5, labels |-> [title |-> "C", source |-> "a", category |-> "x"]],
       [id |-> 12, time |-> InvalidDate,
        labels |-> [title |-> "B", source |-> "a", category |-> "y"]],
       [id |-> 13, time |-> 3, labels |-> [title |-> "A", source |-> "a", category |-> "x"]],
       [id |-> 14, time |-> 3, labels |-> [title |-> "D", source |-> "", category |-> "x"]],
       [id |-> 15, time |-> 4, labels |-> [title |-> "E", link |-> "zz"]],
       [id |-> 16, time |-> InvalidDate,
        labels |-> [title |-> "A", source |-> "a", category |-> "y"]] >>

\* the lists of at most MaxItems distinct feeds of FeedPool
FeedLists ==
    LET indexLists == UNION {[1..n -> DOMAIN FeedPool] : n \in 0..MaxItems}
        distinct == {l \in indexLists : \A i, j \in DOMAIN l : l[i] = l[j] => i = j}
    IN {[i \in DOMAIN l |-> FeedPool[l[i]]] : l \in distinct}

\* feeds for the choice of the grouping labels: values shared by two feeds,
\* values of one feed only, the empty string, the text of the placeholder,
\* and the labels that are never offered
LabelPool ==
    << [id |-> 21, time |-> 6, labels |-> [title |-> "A", source |-> "a", category |-> "x"]],
       [id |-> 22, time |-> 5, labels |-> [title |-> "B", source |-> "a", category |-> "y"]],
       [id |-> 23, time |-> 4,
        labels |-> [title |-> "C", source |-> "b", category |-> "x", tag |-> "zz"]],
       [id |-> 24, time |-> 3,
        labels |-> [title |-> "D", source |-> "b", category |-> "", link |-> "zz"]],
       [id |-> 25, time |-> 2,
        labels |-> [title |-> "E", source |-> "c", category |-> "Uncategorized"]],
       [id |-> 26, time |-> 1,
        labels |-> [title |-> "A", link |-> "zz", summary_html_snippet |-> "x"]] >>

\* the lists of at most MaxItems distinct feeds of LabelPool
LabelLists ==
    LET indexLists == UNION {[1..n -> DOMAIN LabelPool] : n \in 0..MaxItems}
        distinct == {l \in indexLists : \A i, j \in DOMAIN l : l[i] = l[j] => i = j}
    IN {[i \in DOMAIN l |-> LabelPool[l[i]]] : l \in distinct}

\* QueryResponse | null : the responses of POST /query, as lists of feeds in
\* the order the backend sent them; 0 is null
NoData == 0
Responses ==
    << <<FeedTable[4], FeedTable[3], FeedTable[1], FeedTable[2]>>,
       <<FeedTable[5], FeedTable[4]>>,
       <<>> >>
ResponseIds == DOMAIN Responses

\* strings in the order String.prototype.localeCompare puts them
Collation == <<"", "a", "A", "b", "B", "c", "C", "category", "D", "E",
               "source", "Uncategorized", "x", "y", "zz">>

\* group names a previous session can have left in localStorage
SavedNames == {NullName, "c", "zz"}
\* grouping labels a previous session can have left in localStorage
SavedLabels == {NullName, "category"}

(***************************************************************************)
(* feedUtils                                                               *)
(***************************************************************************)
CollationRank ==
    [s \in {Collation[i] : i \in DOMAIN Collation} |->
        CHOOSE i \in DOMAIN Collation : Collation[i] = s]

CollationIndex(s) == CollationRank[s]

localeCompare(a, b) ==
    IF CollationIndex(a) < CollationIndex(b) THEN -1
    ELSE IF CollationIndex(a) > CollationIndex(b) THEN 1 ELSE 0

\* feed.id is set by the `feedsWithIds` mapping for every feed of the list
getFeedItemId(feed) == feed.id

\* a.labels.title || ""
TitleOf(feed) == IF "title" \in DOMAIN feed.labels THEN feed.labels.title ELSE ""

\* Invalid Date taken for a number that is less than every time
DateGreater_Numeric(timeA, timeB) == timeA > timeB

\* timeA > timeB on two Date objects: false when either is Invalid Date
DateGreater(timeA, timeB) ==
    timeA # InvalidDate /\ timeB # InvalidDate /\ timeA > timeB

\* new Date(...) does not throw, so the catch branch is never taken
compareFeeds(a, b) ==
    IF DateGreater(a.time, b.time) THEN -1
    ELSE IF DateGreater(b.time, a.time) THEN 1
    ELSE localeCompare(TitleOf(a), TitleOf(b))

\* Array.prototype.sort(compareFeeds): a stable sort
RECURSIVE InsertSorted(_, _)
InsertSorted(s, x) ==
    IF s = <<>> THEN <<x>>
    ELSE IF compareFeeds(Head(s), x) <= 0 THEN <<Head(s)>> \o InsertSorted(Tail(s), x)
    ELSE <<x>> \o s

RECURSIVE SortFeeds(_)
SortFeeds(s) ==
    IF s = <<>> THEN <<>>
    ELSE InsertSorted(SortFeeds(SubSeq(s, 1, Len(s) - 1)), s[Len(s)])

\* the comparator is consistent on the feeds of s (ECMAScript: a consistent
\* comparator): antisymmetric and transitive
ConsistentOn(s) ==
    /\ \A i, j \in DOMAIN s :
          (compareFeeds(s[i], s[j]) < 0) = (compareFeeds(s[j], s[i]) > 0)
    /\ \A i, j, k \in DOMAIN s :
          (compareFeeds(s[i], s[j]) <= 0 /\ compareFeeds(s[j], s[k]) <= 0)
              => compareFeeds(s[i], s[k]) <= 0

\* the arrays Array.prototype.sort(compareFeeds) can leave: the stable sort
\* for a consistent comparator, an implementation-defined order otherwise
SortOutcomes(s) ==
    IF ConsistentOn(s) THEN {SortFeeds(s)}
    ELSE {[i \in DOMAIN s |-> s[p[i]]] :
             p \in {q \in [DOMAIN s -> DOMAIN s] :
                       \A i, j \in DOMAIN s : q[i] = q[j] => i = j}}

(***************************************************************************)
(* hashUtils. A string is the list of its UTF-16 code units. A Number is   *)
(* the pair hi, lo of the integer hi * 2^16 + lo with 0 <= lo < 2^16, so   *)
(* that values beyond 32 bits are kept exactly, as the doubles of the      *)
(* program keep them below 2^53.                                           *)
(***************************************************************************)
Two16 == 65536

Norm(hi, lo) == [hi |-> hi + (lo \div Two16), lo |-> lo % Two16]

\* ToInt32: the value modulo 2^32, in [-2^31, 2^31)
ToInt32(v) ==
    LET h == v.hi % Two16
    IN [hi |-> IF h >= Two16 \div 2 THEN h - Two16 ELSE h, lo |-> v.lo]

\* v >>> 0 : the value modulo 2^32, in [0, 2^32)
ToUint32(v) == [hi |-> v.hi % Two16, lo |-> v.lo]

\* v << 5 : ToInt32 of the operand, shifted, ToInt32 of the result
ShiftLeft5(v) == LET w == ToInt32(v) IN ToInt32(Norm(w.hi * 32, w.lo * 32))

\* hash = (hash << 5) + hash + char
hashStep(hash, char) ==
    LET shifted == ShiftLeft5(hash)
    IN Norm(hash.hi + shifted.hi, hash.lo + shifted.lo + char)

\* the loop of simpleHash: the value of hash after the first n characters
RECURSIVE hashLoop(_, _)
hashLoop(str, n) ==
    IF n = 0 THEN Norm(0, 5381) ELSE hashStep(hashLoop(str, n - 1), str[n])

\* the accumulator is returned as a signed 32-bit integer
simpleHash_Signed(str) == ToInt32(hashLoop(str, Len(str)))

simpleHash(str) == ToUint32(hashLoop(str, Len(str)))

\* Number.prototype.toString: the decimal digits of a Number that is not
\* negative, as code units
RECURSIVE toString(_)
toString(v) ==
    LET t == (v.hi % 10) * Two16 + v.lo
        q == [hi |-> v.hi \div 10, lo |-> t \div 10]
    IN IF q.hi = 0 /\ q.lo = 0 THEN <<48 + (t % 10)>>
       ELSE Append(toString(q), 48 + (t % 10))

\* a < b by UTF-16 code units, the order of Array.prototype.sort()
RECURSIVE StrLess(_, _)
StrLess(a, b) ==
    IF b = <<>> THEN FALSE
    ELSE IF a = <<>> THEN TRUE
    ELSE IF a[1] # b[1] THEN a[1] < b[1]
    ELSE StrLess(Tail(a), Tail(b))

\* the keys are left in the order of insertion
sortKeys_None(keys) == keys

\* Object.keys(labels).sort()
RECURSIVE sortKeys(_)
sortKeys(keys) ==
    IF Len(keys) = 0 THEN <<>>
    ELSE LET first == CHOOSE i \in 1..Len(keys) : \A j \in 1..Len(keys) : ~StrLess(keys[j], keys[i])
         IN <<keys[first]>> \o sortKeys(SubSeq(keys, 1, first - 1) \o SubSeq(keys, first + 1, Len(keys)))

\* Object.keys(labels): the keys in the order of insertion
RECURSIVE ObjectKeys(_)
ObjectKeys(labels) ==
    IF Len(labels) = 0 THEN <<>>
    ELSE Append(ObjectKeys(SubSeq(labels, 1, Len(labels) - 1)), labels[Len(labels)][1])

\* labels[key] of a label map given as its entries in the order of insertion
LabelOf(labels, key) == labels[CHOOSE i \in DOMAIN labels : labels[i][1] = key][2]

\* sortedKeys.map(key => `${key}=${labels[key]}`).join("&")
RECURSIVE joinLabels(_, _)
joinLabels(labels, keys) ==
    IF keys = <<>> THEN <<>>
    ELSE LET pair == keys[1] \o <<61>> \o LabelOf(labels, keys[1])
         IN IF Len(keys) = 1 THEN pair
            ELSE pair \o <<38>> \o joinLabels(labels, Tail(keys))

\* getFeedItemId of a feed without an id: simpleHash of the sorted labels
hashFeedItemId(labels) ==
    toString(simpleHash(joinLabels(labels, sortKeys(ObjectKeys(labels)))))

(***************************************************************************)
(* The API proxy, routes/api/[...path]/+server.ts                          *)
(***************************************************************************)
\* url.searchParams.get('backendUrl') when the parameter is absent
NoParam == "null"

\* values of the backendUrl parameter: absent, empty, a relative reference
\* (new URL throws), a text new URL accepts with a scheme fetch cannot
\* use, and an http URL
BackendUrls == {NoParam, "", "/backend", "backend:1300", "http://backend:1300"}

\* new URL(backendUrl) throws
URLThrows(backendUrl) == backendUrl \in {"", "/backend"}

\* params.path, as the list of its pieces: the first piece is the longest
\* prefix that is one of the names the handler tests for
EndpointPaths ==
    { <<"query">>, <<"query_config">>, <<"query_config", "/history">>,
      <<"query_config", "_v2">>, <<"apply_config">>, <<"apply_config", "/dry_run">>, <<>> }

\* endpointPath.startsWith(prefix)
startsWith(endpointPath, prefix) == Len(endpointPath) > 0 /\ endpointPath[1] = prefix

\* what fetch(targetUrl) does: resolves with a response of some status
\* (code is ""), or rejects (status is 0) with cause.code ECONNREFUSED, with
\* another cause.code, or without a cause ("none")
BackendStatuses == {200, 204, 400, 404, 500}

Rejections == {"ECONNREFUSED", "ETIMEDOUT", "none"}

FetchOutcomes(backendUrl) ==
    IF backendUrl = "http://backend:1300"
    THEN {[status |-> n, code |-> ""] : n \in BackendStatuses}
            \cup {[status |-> 0, code |-> c] : c \in Rejections}
    ELSE {[status |-> 0, code |-> "none"]}

NoOutcome == [status |-> 0, code |-> ""]

NoRequest ==
    [backendUrl |-> NoParam, path |-> <<>>, forwarded |-> FALSE, status |-> 0, outcome |-> NoOutcome]

\* the handler with the test of the path before the tests of backendUrl
handler_PathFirst(backendUrl, endpointPath, env, outcome) ==
    IF env.queryConfig /\ startsWith(endpointPath, "query_config")
    THEN [forwarded |-> FALSE, status |-> 404]
    ELSE IF env.applyConfig /\ startsWith(endpointPath, "apply_config")
    THEN [forwarded |-> FALSE, status |-> 404]
    ELSE IF backendUrl = NoParam \/ backendUrl = "" THEN [forwarded |-> FALSE, status |-> 400]
    ELSE IF URLThrows(backendUrl) THEN [forwarded |-> FALSE, status |-> 400]
    ELSE IF outcome.status # 0 THEN [forwarded |-> TRUE, status |-> outcome.status]
    ELSE IF outcome.code = "ECONNREFUSED" THEN [forwarded |-> TRUE, status |-> 503]
    ELSE [forwarded |-> TRUE, status |-> 500]

\* handler: whether fetch was called, and the status of the answer
handler(backendUrl, endpointPath, env, outcome) ==
    IF backendUrl = NoParam \/ backendUrl = "" THEN [forwarded |-> FALSE, status |-> 400]
    ELSE IF URLThrows(backendUrl) THEN [forwarded |-> FALSE, status |-> 400]
    ELSE IF env.queryConfig /\ startsWith(endpointPath, "query_config")
    THEN [forwarded |-> FALSE, status |-> 404]
    ELSE IF env.applyConfig /\ startsWith(endpointPath, "apply_config")
    THEN [forwarded |-> FALSE, status |-> 404]
    ELSE IF outcome.status # 0 THEN [forwarded |-> TRUE, status |-> outcome.status]
    ELSE IF outcome.code = "ECONNREFUSED" THEN [forwarded |-> TRUE, status |-> 503]
    ELSE [forwarded |-> TRUE, status |-> 500]

(***************************************************************************)
(* dateUtils. Time is in hours since the epoch. The local time zone is two *)
(* hours ahead of UTC and goes back one hour during the second day of the  *)
(* calendar, which lasts 25 hours.                                         *)
(***************************************************************************)
HoursPerDay == 24

\* the instants (in UTC hours) at which the local calendar days begin
LocalMidnights == <<0 - 2, 22, 47, 71, 95>>

\* the instants the clock of a long session passes through
Instants == {1, 21, 23, 30, 46, 48, 60}

\* getFullYear(), getMonth(), getDate() of new Date(timestamp), as the number
\* of the local calendar day; 0 when the date is outside the calendar
LocalDate(timestamp) ==
    IF \E k \in 1..(Len(LocalMidnights) - 1) :
          LocalMidnights[k] <= timestamp /\ timestamp < LocalMidnights[k + 1]
    THEN CHOOSE k \in 1..(Len(LocalMidnights) - 1) :
          LocalMidnights[k] <= timestamp /\ timestamp < LocalMidnights[k + 1]
    ELSE 0

\* the day of UTC is compared
isToday_UTC(timestamp, t) == timestamp >= 0 /\ timestamp \div HoursPerDay = t \div HoursPerDay

\* isToday, evaluated at time t (new Date()); a value that is no number
\* (negative here) gives no date of today
isToday(timestamp, t) == timestamp >= 0 /\ LocalDate(timestamp) = LocalDate(t)

\* calculateTodayReadCount over the entries of the map, evaluated at time t
calculateTodayReadCount(items, t) == Cardinality({i \in DOMAIN items : isToday(items[i][2], t)})

(***************************************************************************)
(* readStateStore: the Map<itemId, timestamp> as the list of its entries   *)
(* in insertion order, and localStorage["zenfeed_read_feeds"].             *)
(***************************************************************************)
MapHas(map, itemId) == \E i \in DOMAIN map : map[i][1] = itemId

MapGet(map, itemId) == map[CHOOSE i \in DOMAIN map : map[i][1] = itemId][2]

MapKeys(map) == {map[i][1] : i \in DOMAIN map}

\* Map.prototype.set
MapSet(map, itemId, ts) ==
    IF MapHas(map, itemId)
    THEN [i \in DOMAIN map |-> IF map[i][1] = itemId THEN <<itemId, ts>> ELSE map[i]]
    ELSE Append(map, <<itemId, ts>>)

\* new Map(parsedArray)
RECURSIVE MapFromEntries(_)
MapFromEntries(entries) ==
    IF entries = <<>> THEN <<>>
    ELSE LET last == entries[Len(entries)]
         IN MapSet(MapFromEntries(SubSeq(entries, 1, Len(entries) - 1)), last[1], last[2])

(***************************************************************************)
(* JSON. A JavaScript value is a record: k is its type, n the payload of a *)
(* number or a string (the strings of the model are item ids), items the   *)
(* elements of an array. A JSON text is the list of its tokens.            *)
(***************************************************************************)
JsNull == [k |-> "null", n |-> 0, items |-> <<>>]

JsNum(n) == [k |-> "num", n |-> n, items |-> <<>>]

JsStr(n) == [k |-> "str", n |-> n, items |-> <<>>]

JsArr(items) == [k |-> "array", n |-> 0, items |-> items]

\* the object {}
JsObj == [k |-> "object", n |-> 0, items |-> <<>>]

Tok(t, n) == [t |-> t, n |-> n]

\* JSON.stringify
RECURSIVE JSONstringify(_)
RECURSIVE StringifyItems(_)
StringifyItems(items) ==
    IF items = <<>> THEN <<>>
    ELSE IF Len(items) = 1 THEN JSONstringify(items[1])
    ELSE JSONstringify(items[1]) \o <<Tok(",", 0)>> \o StringifyItems(Tail(items))

JSONstringify(v) ==
    CASE v.k = "num" -> <<Tok("num", v.n)>>
      [] v.k = "str" -> <<Tok("str", v.n)>>
      [] v.k = "null" -> <<Tok("null", 0)>>
      [] v.k = "object" -> <<Tok("{", 0), Tok("}", 0)>>
      [] v.k = "array" -> <<Tok("[", 0)>> \o StringifyItems(v.items) \o <<Tok("]", 0)>>

\* JSON.parse: ok is FALSE when it throws a SyntaxError
ParseError == [ok |-> FALSE, val |-> JsNull, next |-> 0]

RECURSIVE ParseValue(_, _)
RECURSIVE ParseItems(_, _, _)
ParseItems(text, i, acc) ==
    LET r == ParseValue(text, i)
    IN IF ~r.ok \/ r.next > Len(text) THEN ParseError
       ELSE IF text[r.next].t = "," THEN ParseItems(text, r.next + 1, Append(acc, r.val))
       ELSE IF text[r.next].t = "]"
            THEN [ok |-> TRUE, val |-> JsArr(Append(acc, r.val)), next |-> r.next + 1]
       ELSE ParseError

ParseValue(text, i) ==
    IF i > Len(text) THEN ParseError
    ELSE CASE text[i].t = "num" -> [ok |-> TRUE, val |-> JsNum(text[i].n), next |-> i + 1]
           [] text[i].t = "str" -> [ok |-> TRUE, val |-> JsStr(text[i].n), next |-> i + 1]
           [] text[i].t = "null" -> [ok |-> TRUE, val |-> JsNull, next |-> i + 1]
           [] text[i].t = "{" ->
                 IF i < Len(text) /\ text[i + 1].t = "}"
                 THEN [ok |-> TRUE, val |-> JsObj, next |-> i + 2]
                 ELSE ParseError
           [] text[i].t = "[" ->
                 IF i < Len(text) /\ text[i + 1].t = "]"
                 THEN [ok |-> TRUE, val |-> JsArr(<<>>), next |-> i + 2]
                 ELSE ParseItems(text, i + 1, <<>>)
           [] OTHER -> ParseError

JSONparse(text) ==
    LET r == ParseValue(text, 1)
    IN IF r.ok /\ r.next = Len(text) + 1 THEN r ELSE ParseError

\* The Map holds its keys and values as integers. A key: a string is an item
\* id (positive), a number n is -(n + 2), any other value is -1. A value: a
\* number is a timestamp (not negative), a string of payload n is -(n + 2),
\* any other value is -1.
JsKey(v) == IF v.k = "str" THEN v.n ELSE IF v.k = "num" THEN 0 - (v.n + 2) ELSE 0 - 1

JsTimestamp(v) == IF v.k = "num" THEN v.n ELSE IF v.k = "str" THEN 0 - (v.n + 2) ELSE 0 - 1

KeyValue(key) == IF key > 0 THEN JsStr(key) ELSE IF key = 0 - 1 THEN JsNull ELSE JsNum(0 - key - 2)

TimestampValue(ts) == IF ts >= 0 THEN JsNum(ts) ELSE IF ts = 0 - 1 THEN JsNull ELSE JsStr(0 - ts - 2)

\* Array.from(newMap.entries())
MapEntries(map) == JsArr([i \in DOMAIN map |-> JsArr(<<KeyValue(map[i][1]), TimestampValue(map[i][2])>>)])

\* localStorage.getItem gives null
AbsentKey == [present |-> FALSE, text |-> <<>>]

\* localStorage.setItem(READ_ITEMS_STORAGE_KEY, JSON.stringify(storableArray))
setItem_KeysOnly(map) ==
    [present |-> TRUE,
     text |-> JSONstringify(JsArr([i \in DOMAIN map |-> KeyValue(map[i][1])]))]

setItem(map) == [present |-> TRUE, text |-> JSONstringify(MapEntries(map))]

\* createReadItemsStore: the load from localStorage at store creation; map
\* is the store's initial value, stored the storage key afterwards
createReadItemsStore(stored) ==
    IF ~stored.present \/ stored.text = <<>>
    THEN [map |-> <<>>, stored |-> stored]
    ELSE LET parsed == JSONparse(stored.text)
         IN IF ~parsed.ok
            THEN [map |-> <<>>, stored |-> AbsentKey]
            ELSE IF /\ parsed.val.k = "array"
                    /\ \A i \in DOMAIN parsed.val.items :
                          /\ parsed.val.items[i].k = "array"
                          /\ Len(parsed.val.items[i].items) = 2
                 THEN [map |-> MapFromEntries([i \in DOMAIN parsed.val.items |->
                                  <<JsKey(parsed.val.items[i].items[1]),
                                    JsTimestamp(parsed.val.items[i].items[2])>>]),
                       stored |-> stored]
                 ELSE [map |-> <<>>, stored |-> AbsentKey]

LoadReadItems(stored) == createReadItemsStore(stored).map

\* markRead with the map, the storage key and the number of audio plays as
\* one record; ok is whether localStorage.setItem succeeds
markRead_Overwrite(store, itemId, ts, ok) ==
    LET newMap == MapSet(store.map, itemId, ts)
    IN [map |-> newMap,
        stored |-> IF ok THEN setItem(newMap) ELSE store.stored,
        plays |-> store.plays + 1]

markRead_PersistFirst(store, itemId, ts, ok) ==
    IF MapHas(store.map, itemId) THEN store
    ELSE IF ~ok THEN store
    ELSE LET newMap == Append(store.map, <<itemId, ts>>)
         IN [map |-> newMap, stored |-> setItem(newMap),
             plays |-> store.plays + 1]

markRead_AlwaysCue(store, itemId, ts, ok) ==
    LET newMap == IF MapHas(store.map, itemId) THEN store.map
                  ELSE Append(store.map, <<itemId, ts>>)
    IN [map |-> newMap,
        stored |-> IF ok THEN setItem(newMap) ELSE store.stored,
        plays |-> store.plays + 1]

markRead(store, itemId, ts, ok) ==
    IF ~MapHas(store.map, itemId)
    THEN LET newMap == MapSet(store.map, itemId, ts)
         IN [map |-> newMap,
             stored |-> IF ok THEN setItem(newMap) ELSE store.stored,
             plays |-> store.plays + 1]
    ELSE store

\* reset
resetStore(store) == [map |-> <<>>, stored |-> AbsentKey, plays |-> store.plays]

(***************************************************************************)
(* Past24h: grouping, filtering, groupable labels                          *)
(***************************************************************************)
\* feed.labels[groupByKey] || $_("past24h.uncategorizedGroup")
GroupValue(feed, groupByKey) ==
    IF groupByKey \in DOMAIN feed.labels /\ feed.labels[groupByKey] # ""
    THEN feed.labels[groupByKey]
    ELSE uncategorizedGroup

\* searchResults.feeds.map(feed => ({...feed, id: getFeedItemId(feed)}))
feedsWithIds(results) == IF results = NoData THEN <<>> ELSE Responses[results]

groupFeeds(feeds, groupByKey) ==
    LET names == {GroupValue(feeds[i], groupByKey) : i \in DOMAIN feeds}
        InGroup(g) == SelectSeq(feeds, LAMBDA f : GroupValue(f, groupByKey) = g)
    IN [g \in names |-> SortFeeds(InGroup(g))]

\* the values groupFeeds can leave in groupedFeeds
groupFeedsOutcomes(feeds, groupByKey) ==
    LET names == {GroupValue(feeds[i], groupByKey) : i \in DOMAIN feeds}
        InGroup(g) == SelectSeq(feeds, LAMBDA f : GroupValue(f, groupByKey) = g)
        lists == UNION {SortOutcomes(InGroup(g)) : g \in names}
    IN {G \in [names -> lists] : \A g \in names : G[g] \in SortOutcomes(InGroup(g))}

filterReadItems_KeepEmpty(groups, readItemsMap) ==
    [g \in DOMAIN groups |->
        SelectSeq(groups[g], LAMBDA f : ~MapHas(readItemsMap, getFeedItemId(f)))]

filterReadItems(groups, readItemsMap) ==
    LET unreadFeeds(g) ==
            SelectSeq(groups[g], LAMBDA f : ~MapHas(readItemsMap, getFeedItemId(f)))
        kept == {g \in DOMAIN groups : Len(unreadFeeds(g)) > 0}
    IN [g \in kept |-> unreadFeeds(g)]

\* Object.entries(filteredGroupedFeeds).sort((a, b) => a[0].localeCompare(b[0])),
\* as the list of the entries' keys (the value of an entry is
\* filteredGroupedFeeds[key])
RECURSIVE SortNames(_)
SortNames(names) ==
    IF names = {} THEN <<>>
    ELSE LET first == CHOOSE n \in names : \A m \in names : localeCompare(n, m) <= 0
         IN <<first>> \o SortNames(names \ {first})

SeqToSet(s) == {s[i] : i \in DOMAIN s}

ExcludedLabels == {"link", "title", "summary_html_snippet"}

\* the selection is kept when the label is no longer available
updateAvailableLabels_NoReset(feeds, selectedLabel, savedLabel, ok) ==
    LET keys == UNION {DOMAIN feeds[i].labels : i \in DOMAIN feeds} \ ExcludedLabels
        Count(k, v) == Cardinality({i \in DOMAIN feeds :
                            k \in DOMAIN feeds[i].labels /\ GroupValue(feeds[i], k) = v})
        Values(k) == {GroupValue(feeds[i], k) :
                            i \in {j \in DOMAIN feeds : k \in DOMAIN feeds[j].labels}}
    IN [available |-> {k \in {DEFAULT_GROUP_BY_LABEL} \cup keys :
                          \/ k = DEFAULT_GROUP_BY_LABEL
                          \/ \E v \in Values(k) : Count(k, v) > 1},
        selected |-> selectedLabel,
        saved |-> savedLabel]

\* updateAvailableLabels: the new availableGroupByLabels (as a set), the new
\* selectedGroupByLabel and the new localStorage["zenfeed_group_by_label"];
\* ok is whether localStorage.setItem succeeds
updateAvailableLabels(feeds, selectedLabel, savedLabel, ok) ==
    LET keys == UNION {DOMAIN feeds[i].labels : i \in DOMAIN feeds} \ ExcludedLabels
        allLabels == {DEFAULT_GROUP_BY_LABEL} \cup keys
        Count(k, v) == Cardinality({i \in DOMAIN feeds :
                            k \in DOMAIN feeds[i].labels /\ GroupValue(feeds[i], k) = v})
        Values(k) == {GroupValue(feeds[i], k) :
                            i \in {j \in DOMAIN feeds : k \in DOMAIN feeds[j].labels}}
        useful == {k \in allLabels :
                      \/ k = DEFAULT_GROUP_BY_LABEL
                      \/ \E v \in Values(k) : Count(k, v) > 1}
        valid == selectedLabel \in useful
    IN [available |-> useful,
        selected |-> IF valid THEN selectedLabel ELSE DEFAULT_GROUP_BY_LABEL,
        saved |-> IF valid \/ ~ok THEN savedLabel ELSE DEFAULT_GROUP_BY_LABEL]

(***************************************************************************)
(* Past24h: the reactive block that updates the active tab and the         *)
(* selected feed                                                           *)
(***************************************************************************)
FeedIn(feeds, feed) ==
    \E i \in DOMAIN feeds : getFeedItemId(feeds[i]) = getFeedItemId(feed)

\* feeds.find(feed => !$readItemsStore.has(getFeedItemId(feed))) || null
FirstUnread(feeds, readItemsMap) ==
    LET unread == {i \in DOMAIN feeds : ~MapHas(readItemsMap, getFeedItemId(feeds[i]))}
    IN IF unread = {} THEN NoFeed
       ELSE feeds[CHOOSE i \in unread : \A j \in unread : i <= j]

\* variants of the reactive block, each with one rule altered
ReconcileVariant(variant, sorted, filtered, loading, initialName, activeName, selected, readItemsMap) ==
    IF Len(sorted) > 0 /\ ~loading
    THEN LET names == SeqToSet(sorted)
             restore == initialName # NullName /\ initialName \in names
             keep == activeName # NullName /\ activeName \in names
             newName == IF restore THEN initialName
                        ELSE IF keep THEN activeName
                        ELSE IF variant = "fallbackLast" THEN sorted[Len(sorted)]
                        ELSE sorted[1]
             changed == IF restore THEN newName # activeName ELSE ~keep
             feeds == filtered[newName]
             ok == /\ selected # NoFeed
                   /\ FeedIn(feeds, selected)
                   /\ ~MapHas(readItemsMap, getFeedItemId(selected))
         IN [initialName |-> IF restore /\ variant # "noConsume" THEN NullName
                             ELSE initialName,
             activeName |-> newName,
             selected |-> IF changed /\ variant = "changedKeeps" /\ selected # NoFeed
                          THEN selected
                          ELSE IF changed THEN feeds[1]
                          ELSE IF ok \/ (variant = "keepSelection" /\ selected # NoFeed)
                          THEN selected
                          ELSE FirstUnread(feeds, readItemsMap)]
    ELSE IF ~loading /\ activeName # NullName /\ variant # "noClear"
    THEN [initialName |-> initialName, activeName |-> NullName, selected |-> NoFeed]
    ELSE [initialName |-> initialName, activeName |-> activeName, selected |-> selected]

Reconcile_KeepSelection(sorted, filtered, loading, initialName, activeName, selected, readItemsMap) ==
    ReconcileVariant("keepSelection", sorted, filtered, loading, initialName, activeName,
                     selected, readItemsMap)

Reconcile_NoClear(sorted, filtered, loading, initialName, activeName, selected, readItemsMap) ==
    ReconcileVariant("noClear", sorted, filtered, loading, initialName, activeName,
                     selected, readItemsMap)

Reconcile_FallbackLast(sorted, filtered, loading, initialName, activeName, selected, readItemsMap) ==
    ReconcileVariant("fallbackLast", sorted, filtered, loading, initialName, activeName,
                     selected, readItemsMap)

Reconcile_NoConsume(sorted, filtered, loading, initialName, activeName, selected, readItemsMap) ==
    ReconcileVariant("noConsume", sorted, filtered, loading, initialName, activeName,
                     selected, readItemsMap)

Reconcile_ChangedKeeps(sorted, filtered, loading, initialName, activeName, selected, readItemsMap) ==
    ReconcileVariant("changedKeeps", sorted, filtered, loading, initialName, activeName,
                     selected, readItemsMap)

Reconcile(sorted, filtered, loading, initialName, activeName, selected, readItemsMap) ==
    IF Len(sorted) > 0 /\ ~loading
    THEN LET currentGroupNames == SeqToSet(sorted)
             restore == initialName # NullName /\ initialName \in currentGroupNames
             keep == activeName # NullName /\ activeName \in currentGroupNames
             newActiveGroupName ==
                 IF restore THEN initialName
                 ELSE IF keep THEN activeName
                 ELSE sorted[1]
             groupChanged ==
                 IF restore THEN newActiveGroupName # activeName ELSE ~keep
             currentGroupFeeds == filtered[newActiveGroupName]
             stillExistsAndUnread ==
                 /\ selected # NoFeed
                 /\ \E i \in DOMAIN currentGroupFeeds :
                       /\ getFeedItemId(currentGroupFeeds[i]) = getFeedItemId(selected)
                       /\ ~MapHas(readItemsMap, getFeedItemId(currentGroupFeeds[i]))
         IN [initialName |-> IF restore THEN NullName ELSE initialName,
             activeName |-> newActiveGroupName,
             selected |->
                 IF groupChanged
                 THEN (IF Len(currentGroupFeeds) > 0 THEN currentGroupFeeds[1] ELSE NoFeed)
                 ELSE IF Len(currentGroupFeeds) > 0
                 THEN (IF stillExistsAndUnread THEN selected
                       ELSE FirstUnread(currentGroupFeeds, readItemsMap))
                 ELSE NoFeed]
    ELSE IF ~loading /\ activeName # NullName
    THEN [initialName |-> initialName, activeName |-> NullName, selected |-> NoFeed]
    ELSE [initialName |-> initialName, activeName |-> activeName, selected |-> selected]

\* the first unread feed of the group, wherever the marked item is
NextSelectedFeed_First(original, itemId, currentReadMap, selected) ==
    FirstUnread(original, currentReadMap)

\* handleMarkReadAndSelectNextDesktop: the feed selected after itemId was
\* marked read, searched in the unfiltered list of the active group
NextSelectedFeed(original, itemId, currentReadMap, selected) ==
    LET found == {i \in DOMAIN original : getFeedItemId(original[i]) = itemId}
    IN IF found # {}
       THEN LET markedIndex == CHOOSE i \in found : \A j \in found : i <= j
                after == {i \in DOMAIN original :
                             /\ i > markedIndex
                             /\ ~MapHas(currentReadMap, getFeedItemId(original[i]))}
                before == {i \in DOMAIN original :
                             /\ i < markedIndex
                             /\ ~MapHas(currentReadMap, getFeedItemId(original[i]))}
            IN IF after # {} THEN original[CHOOSE i \in after : \A j \in after : i <= j]
               ELSE IF before # {}
               THEN original[CHOOSE i \in before : \A j \in before : i >= j]
               ELSE NoFeed
       ELSE IF selected # NoFeed /\ getFeedItemId(selected) = itemId THEN NoFeed
       ELSE selected

(***************************************************************************)
(* State                                                                   *)
(***************************************************************************)
VARIABLES
    now,                    \* Date.now()
    readItems,              \* $readItemsStore
    lsReadItems,            \* localStorage["zenfeed_read_feeds"]
    todayReadCount,         \* $todayReadCountStore as last computed
    soundPlays,             \* calls of markAsReadSound.play()
    lsGroupByLabel,         \* localStorage["zenfeed_group_by_label"]
    lsActiveGroupName,      \* localStorage["zenfeed_active_group_name"]
    ssNavigating,           \* sessionStorage["zenfeed_navigating_to_detail"] = "true"
    ssLastViewedId,         \* sessionStorage["zenfeed_last_viewed_mobile_feed_id"]
    ssSwipeLabel,           \* sessionStorage["zenfeed_swipe_group_label"]
    ssSwipeName,            \* sessionStorage["zenfeed_swipe_group_name"]
    ssScroll,               \* sessionStorage["zenfeed_scroll_position"]
    queryFeedsStore,        \* the cached QueryResponse
    fetches,                \* /query requests issued so far
    staleFetches,           \* requests in flight whose component was destroyed
    page,                   \* "away", "list" (Past24h mounted) or "detail"
    isMobile,               \* matchMedia("(max-width: 767px)").matches
    searchResults,
    groupedFeeds,
    filteredGroupedFeeds,
    sortedGroupEntries,
    isLoading,
    error,
    availableGroupByLabels,
    selectedGroupByLabel,
    initialActiveGroupName,
    activeGroupName,
    selectedFeedDesktop,
    shouldRestoreScroll,
    pendingMark,            \* idToMark of the tick().then(...) scheduled by onMount
    settings,               \* isLoading, error and requests of each settings page
    heap,                   \* the Map objects created so far, by object number
    refs,                   \* the object each holder of a read-state map refers to
    readerSeen,             \* the entries the reader found when it obtained its map
    hashed,                 \* a string and what simpleHash computed for it
    itemKey,                \* a label map and the id getFeedItemId computed for it
    otherTab,               \* the read-state store of a second tab of the same profile
    persisted,              \* history: the ids a markRead of either tab wrote to localStorage
    detail,                 \* the component of the detail page: feedData, feedsList, currentFeedIndex, ...
    shown,                  \* history: the ids the detail page displayed since the last click
    proxyEnv,               \* the flags the proxy module read from the environment
    proxied,                \* the last request to the proxy and its answer
    lastOp,                 \* history: the last call of the store and its argument
    restoredOver            \* history: the active group the last pass of the
                            \* reconciler replaced by the saved name

storeVars == <<readItems, lsReadItems, soundPlays, todayReadCount>>
prefVars == <<lsGroupByLabel, lsActiveGroupName>>
swipeVars == <<ssSwipeLabel, ssSwipeName>>
sessionVars == <<ssNavigating, ssLastViewedId, ssScroll, swipeVars>>
navVars == <<ssNavigating, ssLastViewedId, swipeVars>>
netVars == <<queryFeedsStore, fetches, staleFetches>>
derivedVars == <<groupedFeeds, filteredGroupedFeeds, sortedGroupEntries>>
selectionVars == <<initialActiveGroupName, activeGroupName, selectedFeedDesktop>>
componentVars == <<searchResults, derivedVars, isLoading, error, availableGroupByLabels,
                   selectedGroupByLabel, selectionVars, shouldRestoreScroll, pendingMark>>
\* the state outside the list page and the store
heapVars == <<heap, refs, readerSeen>>
hashVars == <<hashed, itemKey>>
proxyVars == <<proxyEnv, proxied>>
detailVars == <<detail, shown>>
tabVars == <<otherTab, persisted>>
outsideVars == <<settings, heapVars, hashVars, proxyVars, detailVars, tabVars>>
\* outsideVars without the settings pages
notSettings == <<heapVars, hashVars, proxyVars, detailVars, tabVars>>
\* outsideVars without the Map objects
notHeap == <<settings, hashVars, proxyVars, detailVars, tabVars>>
\* outsideVars without the hashes
notHash == <<settings, heapVars, proxyVars, detailVars, tabVars>>
\* outsideVars without the proxy
notProxy == <<settings, heapVars, hashVars, detailVars, tabVars>>
\* outsideVars without the detail page
notDetail == <<settings, heapVars, hashVars, proxyVars, tabVars>>
\* outsideVars without the second tab
notTabs == <<settings, heapVars, hashVars, proxyVars, detailVars>>
vars == <<now, storeVars, prefVars, sessionVars, netVars, page, isMobile, componentVars,
          outsideVars, lastOp, restoredOver>>

\* an absent item id
NoId == 0
\* an absent scroll offset
NoScroll == -1
\* window.scrollY at the time of a click
ScrollOffsets == {1}

EmptyGroups == [g \in {} |-> <<>>]

Store == [map |-> readItems, stored |-> lsReadItems, plays |-> soundPlays]

SetStore(st) ==
    /\ readItems' = st.map
    /\ lsReadItems' = st.stored
    /\ soundPlays' = st.plays
    /\ todayReadCount' = calculateTodayReadCount(st.map, now)

Op(name, itemId, ok) ==
    [op |-> name, id |-> itemId, ok |-> ok, wasRead |-> MapHas(readItems, itemId),
     wasSelected |-> selectedFeedDesktop # NoFeed
                        /\ getFeedItemId(selectedFeedDesktop) = itemId]

\* any handler that is not a call of the store
OtherOp ==
    [op |-> "other", id |-> NoId, ok |-> TRUE, wasRead |-> FALSE, wasSelected |-> FALSE]

\* restoredOver when the last pass of the reconciler did not use the saved name
NotRestored == "<none>"

(***************************************************************************)
(* The reactive flush after a handler: regroup, filter, sort the groups,   *)
(* reconcile the active group and the selection, save the active group     *)
(* name; then afterUpdate (the scroll restoration).                        *)
(***************************************************************************)
Render(results, label, groups, readMap, loading, initialName, activeName, selected, restore) ==
    LET regrouped == IF results # NoData
                     THEN groupFeeds(feedsWithIds(results), label)
                     ELSE groups
        filtered == filterReadItems(regrouped, readMap)
        sorted == SortNames(DOMAIN filtered)
        r == Reconcile(sorted, filtered, loading, initialName, activeName, selected,
                       readMap)
    IN /\ groupedFeeds' = regrouped
       /\ filteredGroupedFeeds' = filtered
       /\ sortedGroupEntries' = sorted
       /\ initialActiveGroupName' = r.initialName
       /\ activeGroupName' = r.activeName
       /\ selectedFeedDesktop' = r.selected
       /\ restoredOver' = IF initialName # NullName /\ r.initialName = NullName
                          THEN activeName ELSE NotRestored
       /\ lsActiveGroupName' =
              IF r.activeName # NullName THEN r.activeName ELSE lsActiveGroupName
       /\ shouldRestoreScroll' = (restore /\ ~isMobile)
       /\ ssScroll' = IF restore /\ isMobile THEN NoScroll ELSE ssScroll

\* the component's variables after it is destroyed (and before onMount)
Unmounted ==
    /\ searchResults' = NoData
    /\ groupedFeeds' = EmptyGroups
    /\ filteredGroupedFeeds' = EmptyGroups
    /\ sortedGroupEntries' = <<>>
    /\ isLoading' = FALSE
    /\ error' = FALSE
    /\ availableGroupByLabels' = {DEFAULT_GROUP_BY_LABEL}
    /\ selectedGroupByLabel' = DEFAULT_GROUP_BY_LABEL
    /\ initialActiveGroupName' = NullName
    /\ activeGroupName' = NullName
    /\ selectedFeedDesktop' = NoFeed
    /\ shouldRestoreScroll' = FALSE
    /\ pendingMark' = NoId
    /\ restoredOver' = NotRestored

\* a tab that has not loaded the application
NotOpened == [loaded |-> FALSE, map |-> <<>>, plays |-> 0]

\* the detail page before its onMount, and after it is destroyed
NoDetail ==
    [mounted |-> FALSE, feedData |-> NoId, feedsList |-> <<>>, currentFeedIndex |-> -1,
     hasNextFeed |-> FALSE, isDragging |-> FALSE, isTransitioning |-> FALSE]

\* the pages of the settings that load the configuration when they are mounted
SettingsPages == {"advanced", "notifications", "sources"}

\* no Map object
NoObject == 0

\* let isLoading = true; let error = null; no request yet
NotMounted == [isLoading |-> TRUE, error |-> FALSE, inFlight |-> FALSE, requests |-> 0]

Init ==
    /\ now = 1
    /\ lsReadItems = AbsentKey
    /\ readItems = LoadReadItems(lsReadItems)
    /\ todayReadCount = calculateTodayReadCount(readItems, now)
    /\ soundPlays = 0
    /\ lsGroupByLabel \in SavedLabels
    /\ lsActiveGroupName \in SavedNames
    /\ ssNavigating = FALSE
    /\ ssLastViewedId = NoId
    /\ ssSwipeLabel = NullName
    /\ ssSwipeName = NullName
    /\ ssScroll = NoScroll
    /\ queryFeedsStore = NoData
    /\ fetches = 0
    /\ staleFetches = 0
    /\ page = "away"
    /\ isMobile \in BOOLEAN
    /\ searchResults = NoData
    /\ groupedFeeds = EmptyGroups
    /\ filteredGroupedFeeds = EmptyGroups
    /\ sortedGroupEntries = <<>>
    /\ isLoading = FALSE
    /\ error = FALSE
    /\ availableGroupByLabels = {DEFAULT_GROUP_BY_LABEL}
    /\ selectedGroupByLabel = DEFAULT_GROUP_BY_LABEL
    /\ initialActiveGroupName = NullName
    /\ activeGroupName = NullName
    /\ selectedFeedDesktop = NoFeed
    /\ shouldRestoreScroll = FALSE
    /\ pendingMark = NoId
    /\ settings = [c \in SettingsPages |-> NotMounted]
    /\ heap = <<readItems, <<>>>>
    /\ refs = [store |-> 1, legacy |-> 2, reader |-> NoObject]
    /\ readerSeen = <<>>
    /\ hashed = [str |-> <<>>, acc |-> hashLoop(<<>>, 0), value |-> simpleHash(<<>>)]
    /\ itemKey = [labels |-> <<>>, id |-> hashFeedItemId(<<>>)]
    /\ otherTab = NotOpened
    /\ persisted = {}
    /\ detail = NoDetail
    /\ shown = {}
    /\ proxyEnv = [queryConfig |-> FALSE, applyConfig |-> FALSE]
    /\ proxied = NoRequest
    /\ lastOp = OtherOp
    /\ restoredOver = NotRestored

(***************************************************************************)
(* Actions of the list page                                                *)
(***************************************************************************)
Interactive == page = "list" /\ pendingMark = NoId

\* the feeds a pointer can reach: the active group's list in the two-pane
\* layout, every group's card in the mobile layout
Displayed(feed) ==
    /\ ~isLoading
    /\ ~error
    /\ IF isMobile
       THEN \E g \in DOMAIN filteredGroupedFeeds : FeedIn(filteredGroupedFeeds[g], feed)
       ELSE /\ activeGroupName \in DOMAIN filteredGroupedFeeds
            /\ FeedIn(filteredGroupedFeeds[activeGroupName], feed)

\* fetchFeeds up to its first await, and the flush that follows
FetchStart(label, initialName, activeName) ==
    /\ fetches < MaxFetches
    /\ fetches' = fetches + 1
    /\ isLoading' = TRUE
    /\ error' = FALSE
    /\ searchResults' = NoData
    /\ Render(NoData, label, EmptyGroups, readItems, TRUE, initialName, activeName,
              NoFeed, shouldRestoreScroll)

\* onMount
Mount ==
    /\ page # "list"
    /\ LET cachedData == queryFeedsStore
           cacheHit == ssNavigating /\ cachedData # NoData
           savedGroupLabel ==
               IF lsGroupByLabel # NullName THEN lsGroupByLabel ELSE DEFAULT_GROUP_BY_LABEL
       IN /\ page' = "list"
          /\ ssNavigating' = FALSE
          /\ lastOp' = OtherOp
          /\ IF cacheHit
             THEN LET u == updateAvailableLabels(Responses[cachedData], savedGroupLabel,
                                                 lsGroupByLabel, TRUE)
                  IN /\ searchResults' = cachedData
                     /\ isLoading' = FALSE
                     /\ error' = FALSE
                     /\ pendingMark' = ssLastViewedId
                     /\ ssLastViewedId' = NoId
                     /\ availableGroupByLabels' = u.available
                     /\ selectedGroupByLabel' = u.selected
                     /\ lsGroupByLabel' = u.saved
                     /\ UNCHANGED fetches
                     /\ Render(cachedData, u.selected, EmptyGroups, readItems, FALSE,
                               lsActiveGroupName, NullName, NoFeed, ssScroll # NoScroll)
             ELSE /\ FetchStart(savedGroupLabel, lsActiveGroupName, NullName)
                  /\ pendingMark' = NoId
                  /\ availableGroupByLabels' = {DEFAULT_GROUP_BY_LABEL}
                  /\ selectedGroupByLabel' = savedGroupLabel
                  /\ UNCHANGED <<ssLastViewedId, lsGroupByLabel>>
    /\ todayReadCount' = calculateTodayReadCount(readItems, now)
    /\ detail' = NoDetail
    /\ UNCHANGED <<now, notDetail, shown, readItems, lsReadItems, soundPlays, queryFeedsStore,
                   staleFetches, isMobile, swipeVars>>

\* the item is marked whether or not the cached list holds it
MarkOnReturn_Unchecked(ok) ==
    /\ page = "list"
    /\ pendingMark # NoId
    /\ pendingMark' = NoId
    /\ LET inList == \E i \in DOMAIN feedsWithIds(searchResults) :
                         getFeedItemId(feedsWithIds(searchResults)[i]) = pendingMark
           st == markRead(Store, pendingMark, now, ok)
       IN /\ SetStore(st)
          /\ lastOp' = IF inList /\ ~MapHas(readItems, pendingMark)
                       THEN Op("markOnReturn", pendingMark, ok)
                       ELSE OtherOp
          /\ Render(searchResults, selectedGroupByLabel, groupedFeeds, st.map, isLoading,
                    initialActiveGroupName, activeGroupName, selectedFeedDesktop,
                    shouldRestoreScroll)
    /\ UNCHANGED <<now, outsideVars, lsGroupByLabel, navVars, netVars, page, isMobile, searchResults,
                   isLoading, error, availableGroupByLabels, selectedGroupByLabel>>

\* the continuation of tick() in onMount: mark the item viewed in the detail page
MarkOnReturn(ok) ==
    /\ page = "list"
    /\ pendingMark # NoId
    /\ pendingMark' = NoId
    /\ LET inList == \E i \in DOMAIN feedsWithIds(searchResults) :
                         getFeedItemId(feedsWithIds(searchResults)[i]) = pendingMark
           st == IF inList /\ ~MapHas(readItems, pendingMark)
                 THEN markRead(Store, pendingMark, now, ok)
                 ELSE Store
       IN /\ SetStore(st)
          /\ lastOp' = IF inList /\ ~MapHas(readItems, pendingMark)
                       THEN Op("markOnReturn", pendingMark, ok)
                       ELSE OtherOp
          /\ Render(searchResults, selectedGroupByLabel, groupedFeeds, st.map, isLoading,
                    initialActiveGroupName, activeGroupName, selectedFeedDesktop,
                    shouldRestoreScroll)
    /\ UNCHANGED <<now, outsideVars, lsGroupByLabel, navVars, netVars, page, isMobile, searchResults,
                   isLoading, error, availableGroupByLabels, selectedGroupByLabel>>

\* fetchFeeds after a 2xx response
FetchDone(r) ==
    /\ page = "list"
    /\ isLoading
    /\ lastOp' = OtherOp
    /\ LET u == updateAvailableLabels(Responses[r], selectedGroupByLabel, lsGroupByLabel, TRUE)
           restore == \/ shouldRestoreScroll
                      \/ (~ssNavigating /\ isMobile /\ ssScroll # NoScroll)
       IN /\ queryFeedsStore' = r
          /\ searchResults' = r
          /\ availableGroupByLabels' = u.available
          /\ selectedGroupByLabel' = u.selected
          /\ lsGroupByLabel' = u.saved
          /\ isLoading' = FALSE
          /\ Render(r, u.selected, groupedFeeds, readItems, FALSE,
                    initialActiveGroupName, activeGroupName, selectedFeedDesktop, restore)
    /\ UNCHANGED <<now, outsideVars, storeVars, navVars, fetches, staleFetches, page, isMobile, error,
                   pendingMark>>

\* fetchFeeds after a non-2xx response or a rejected fetch
FetchFail ==
    /\ page = "list"
    /\ isLoading
    /\ lastOp' = OtherOp
    /\ error' = TRUE
    /\ searchResults' = NoData
    /\ queryFeedsStore' = NoData
    /\ isLoading' = FALSE
    /\ Render(NoData, selectedGroupByLabel, groupedFeeds, readItems, FALSE,
              initialActiveGroupName, activeGroupName, selectedFeedDesktop,
              shouldRestoreScroll)
    /\ UNCHANGED <<now, outsideVars, storeVars, lsGroupByLabel, navVars, fetches, staleFetches,
                   page, isMobile, availableGroupByLabels, selectedGroupByLabel,
                   pendingMark>>

\* the request of a destroyed component completes: only the shared cache is
\* written (r = NoData: the request failed)
StaleFetchDone(r) ==
    /\ staleFetches > 0
    /\ pendingMark = NoId
    /\ staleFetches' = staleFetches - 1
    /\ queryFeedsStore' = r
    /\ lastOp' = OtherOp
    /\ UNCHANGED <<now, outsideVars, storeVars, prefVars, sessionVars, fetches, page, isMobile,
                   componentVars, restoredOver>>

handleSearch ==
    /\ Interactive
    /\ ~isLoading
    /\ queryFeedsStore' = NoData
    /\ lastOp' = OtherOp
    /\ FetchStart(selectedGroupByLabel, initialActiveGroupName, activeGroupName)
    /\ UNCHANGED <<now, outsideVars, storeVars, lsGroupByLabel, navVars, staleFetches, page, isMobile,
                   availableGroupByLabels, selectedGroupByLabel, pendingMark>>

\* handleMarkAsRead -> handleMarkReadAndSelectNextDesktop (on:contextmenu of a
\* list item)
handleMarkAsRead(feed, ok) ==
    /\ Interactive
    /\ Displayed(feed)
    /\ soundPlays < MaxReads
    /\ lastOp' = Op("handleMarkAsRead", getFeedItemId(feed), ok)
    /\ LET itemId == getFeedItemId(feed)
           st == markRead(Store, itemId, now, ok)
           desktop == /\ ~isMobile
                      /\ activeGroupName # NullName
                      /\ activeGroupName \in DOMAIN groupedFeeds
           next == IF desktop
                   THEN NextSelectedFeed(groupedFeeds[activeGroupName], itemId, st.map,
                                         selectedFeedDesktop)
                   ELSE selectedFeedDesktop
       IN /\ SetStore(st)
          /\ Render(searchResults, selectedGroupByLabel, groupedFeeds, st.map, isLoading,
                    initialActiveGroupName, activeGroupName, next, shouldRestoreScroll)
    /\ UNCHANGED <<now, outsideVars, lsGroupByLabel, navVars, netVars, page, isMobile, searchResults,
                   isLoading, error, availableGroupByLabels, selectedGroupByLabel,
                   pendingMark>>

\* selectFeedForDetail (on:click of a list item, two-pane layout)
selectFeedForDetail(feed) ==
    /\ Interactive
    /\ ~isMobile
    /\ Displayed(feed)
    /\ lastOp' = OtherOp
    /\ Render(searchResults, selectedGroupByLabel, groupedFeeds, readItems, isLoading,
              initialActiveGroupName, activeGroupName, feed, shouldRestoreScroll)
    /\ UNCHANGED <<now, outsideVars, storeVars, lsGroupByLabel, navVars, netVars, page, isMobile,
                   searchResults, isLoading, error, availableGroupByLabels,
                   selectedGroupByLabel, pendingMark>>

\* on:click of a group tab (two-pane layout; the tabs show when there is
\* more than one group)
TabClick(groupName) ==
    /\ Interactive
    /\ ~isMobile
    /\ ~isLoading
    /\ ~error
    /\ Len(sortedGroupEntries) > 1
    /\ groupName \in SeqToSet(sortedGroupEntries)
    /\ activeGroupName # groupName
    /\ lastOp' = [OtherOp EXCEPT !.op = "tabClick"]
    /\ Render(searchResults, selectedGroupByLabel, groupedFeeds, readItems, isLoading,
              initialActiveGroupName, groupName,
              FirstUnread(filteredGroupedFeeds[groupName], readItems),
              shouldRestoreScroll)
    /\ UNCHANGED <<now, outsideVars, storeVars, lsGroupByLabel, navVars, netVars, page, isMobile,
                   searchResults, isLoading, error, availableGroupByLabels,
                   selectedGroupByLabel, pendingMark>>

\* on:click of an entry of the group-by dropdown
GroupByClick(labelKey) ==
    /\ Interactive
    /\ ~isLoading
    /\ Cardinality(availableGroupByLabels) > 1
    /\ labelKey \in availableGroupByLabels
    /\ selectedGroupByLabel # labelKey
    /\ selectedGroupByLabel' = labelKey
    /\ lsGroupByLabel' = labelKey
    /\ lastOp' = OtherOp
    /\ Render(searchResults, labelKey, groupedFeeds, readItems, isLoading,
              initialActiveGroupName, activeGroupName, selectedFeedDesktop,
              shouldRestoreScroll)
    /\ UNCHANGED <<now, outsideVars, storeVars, navVars, netVars, page, isMobile, searchResults,
                   isLoading, error, availableGroupByLabels, pendingMark>>

\* the item is marked read at the click
handleFeedClickMobile_MarkNow(feed, scrollY) ==
    /\ Interactive
    /\ isMobile
    /\ Displayed(feed)
    /\ soundPlays < MaxReads
    /\ ssScroll' = scrollY
    /\ ssNavigating' = TRUE
    /\ ssLastViewedId' = getFeedItemId(feed)
    /\ ssSwipeLabel' = selectedGroupByLabel
    /\ ssSwipeName' = GroupValue(feed, selectedGroupByLabel)
    /\ page' = "detail"
    /\ lastOp' = OtherOp
    /\ Unmounted
    /\ SetStore(markRead(Store, getFeedItemId(feed), now, TRUE))
    /\ detail' = NoDetail
    /\ shown' = {}
    /\ UNCHANGED <<now, notDetail, prefVars, netVars, isMobile>>

\* handleFeedClickMobile: save the navigation context and goto("/feed-detail");
\* the list component is destroyed
handleFeedClickMobile(feed, scrollY) ==
    /\ Interactive
    /\ isMobile
    /\ Displayed(feed)
    /\ soundPlays < MaxReads
    /\ ssScroll' = scrollY
    /\ ssNavigating' = TRUE
    /\ ssLastViewedId' = getFeedItemId(feed)
    /\ ssSwipeLabel' = selectedGroupByLabel
    /\ ssSwipeName' = GroupValue(feed, selectedGroupByLabel)
    /\ page' = "detail"
    /\ lastOp' = OtherOp
    /\ Unmounted
    /\ detail' = NoDetail
    /\ shown' = {}
    /\ UNCHANGED <<now, notDetail, storeVars, prefVars, netVars, isMobile>>

\* the user leaves the list (another tab of the home page, the settings):
\* the component is destroyed, a request in flight is not cancelled
LeaveList ==
    /\ Interactive
    /\ page' = "away"
    /\ staleFetches' = staleFetches + (IF isLoading THEN 1 ELSE 0)
    /\ lastOp' = OtherOp
    /\ Unmounted
    /\ UNCHANGED <<now, outsideVars, storeVars, prefVars, sessionVars, queryFeedsStore, fetches,
                   isMobile>>

\* updateMobileStatus: the media query changes
updateMobileStatus ==
    /\ pendingMark = NoId
    /\ isMobile' = ~isMobile
    /\ lastOp' = OtherOp
    /\ IF page = "list" /\ isMobile
       THEN ssScroll' = NoScroll /\ shouldRestoreScroll' = FALSE
       ELSE UNCHANGED <<ssScroll, shouldRestoreScroll>>
    /\ UNCHANGED <<now, outsideVars, storeVars, prefVars, navVars, netVars, page, searchResults,
                   derivedVars, isLoading, error, availableGroupByLabels,
                   selectedGroupByLabel, selectionVars, pendingMark, restoredOver>>

\* time passes
Tick ==
    /\ now < MaxClock
    /\ now' = now + 1
    /\ UNCHANGED <<outsideVars, storeVars, prefVars, sessionVars, netVars, page, isMobile,
                   componentVars, lastOp, restoredOver>>

Next ==
    \/ Mount
    \/ \E ok \in BOOLEAN : MarkOnReturn(ok)
    \/ \E r \in ResponseIds : FetchDone(r)
    \/ FetchFail
    \/ \E r \in ResponseIds \cup {NoData} : StaleFetchDone(r)
    \/ handleSearch
    \/ \E i \in DOMAIN FeedTable, ok \in BOOLEAN : handleMarkAsRead(FeedTable[i], ok)
    \/ \E i \in DOMAIN FeedTable : selectFeedForDetail(FeedTable[i])
    \/ \E g \in SeqToSet(sortedGroupEntries) : TabClick(g)
    \/ \E k \in availableGroupByLabels : GroupByClick(k)
    \/ \E i \in DOMAIN FeedTable, y \in ScrollOffsets :
          handleFeedClickMobile(FeedTable[i], y)
    \/ LeaveList
    \/ updateMobileStatus

Spec == Init /\ [][Next]_vars

(***************************************************************************)
(* The store alone, under any sequence of calls of its public operations   *)
(***************************************************************************)
StoreMarkRead(itemId, ok) ==
    /\ MapHas(readItems, itemId) \/ soundPlays < MaxReads
    /\ lastOp' = Op("markRead", itemId, ok)
    /\ SetStore(markRead(Store, itemId, now, ok))
    /\ UNCHANGED <<now, outsideVars, prefVars, sessionVars, netVars, page, isMobile, componentVars,
                   restoredOver>>

StoreReset ==
    /\ lastOp' = Op("reset", NoId, TRUE)
    /\ SetStore(resetStore(Store))
    /\ UNCHANGED <<now, outsideVars, prefVars, sessionVars, netVars, page, isMobile, componentVars,
                   restoredOver>>

StoreNext ==
    \/ \E itemId \in ItemIds, ok \in BOOLEAN : StoreMarkRead(itemId, ok)
    \/ StoreReset
    \/ Tick

StoreSpec == Init /\ [][StoreNext]_vars

(***************************************************************************)
(* The store over page loads: the module is evaluated again at each load   *)
(* of the application and creates the store from localStorage, whose key   *)
(* may have been written by anything that shares the origin.               *)
(***************************************************************************)
LoadIds == {1, 2}

\* the entries of the maps with at most two items
LoadMaps ==
    {<<>>}
    \cup {<<<<id, ts>>>> : id \in LoadIds, ts \in 1..MaxClock}
    \cup {m \in {<<<<a, ta>>, <<b, tb>>>> : a \in LoadIds, b \in LoadIds,
                                            ta \in 1..MaxClock, tb \in 1..MaxClock} :
             m[1][1] # m[2][1]}

\* texts that JSON.parse rejects
UnparseableTexts ==
    { <<Tok("[", 0)>>,
      <<Tok("[", 0), Tok("[", 0), Tok("str", 1), Tok(",", 0), Tok("num", 1), Tok("]", 0)>>,
      <<Tok("str", 1), Tok("num", 1)>>,
      <<Tok("undefined", 0)>> }

\* values that are no list of (itemId string, timestamp number) pairs
WrongShapeValues ==
    { JsNull, JsObj, JsNum(7), JsStr(1),
      JsArr(<<JsNum(7)>>),
      JsArr(<<JsArr(<<JsStr(1)>>)>>),
      JsArr(<<JsArr(<<JsStr(1), JsNum(1), JsNum(2)>>)>>),
      JsArr(<<JsArr(<<JsStr(1), JsNum(1)>>), JsStr(2)>>),
      JsArr(<<JsArr(<<JsNum(7), JsNum(1)>>)>>),
      JsArr(<<JsArr(<<JsStr(1), JsStr(2)>>)>>),
      JsArr(<<JsArr(<<JsStr(1), JsNull>>)>>) }

StoredTexts ==
    {<<>>}
    \cup UnparseableTexts
    \cup {JSONstringify(v) : v \in WrongShapeValues}
    \cup {JSONstringify(MapEntries(m)) : m \in LoadMaps}

\* the stored value is a list of (itemId string, timestamp number) pairs
WellFormed(stored) ==
    /\ stored.present
    /\ LET parsed == JSONparse(stored.text)
       IN /\ parsed.ok
          /\ parsed.val.k = "array"
          /\ \A i \in DOMAIN parsed.val.items :
                /\ parsed.val.items[i].k = "array"
                /\ Len(parsed.val.items[i].items) = 2
                /\ parsed.val.items[i].items[1].k = "str"
                /\ parsed.val.items[i].items[2].k = "num"

\* a load of the application: createReadItemsStore runs again
PageLoad ==
    /\ lastOp' = [OtherOp EXCEPT !.op = "pageLoad"]
    /\ readItems' = createReadItemsStore(lsReadItems).map
    /\ lsReadItems' = createReadItemsStore(lsReadItems).stored
    /\ todayReadCount' = calculateTodayReadCount(createReadItemsStore(lsReadItems).map, now)
    /\ UNCHANGED <<now, outsideVars, soundPlays, prefVars, sessionVars, netVars, page, isMobile,
                   componentVars, restoredOver>>

\* localStorage.setItem("zenfeed_read_feeds", text) by other code of the origin
StorageWrite(text) ==
    /\ lastOp' = [OtherOp EXCEPT !.op = "storageWrite"]
    /\ lsReadItems' = [present |-> TRUE, text |-> text]
    /\ UNCHANGED <<now, outsideVars, readItems, soundPlays, todayReadCount, prefVars, sessionVars,
                   netVars, page, isMobile, componentVars, restoredOver>>

LoadNext ==
    \/ PageLoad
    \/ \E text \in StoredTexts : StorageWrite(text)
    \/ \E itemId \in LoadIds, ok \in BOOLEAN : StoreMarkRead(itemId, ok)
    \/ Tick

LoadSpec == Init /\ [][LoadNext]_vars

(***************************************************************************)
(* groupFeeds alone, on any list of feeds and any grouping label            *)
(***************************************************************************)
GroupKeys == {"source", "category"}

\* groupFeedsOutcomes as a table over the inputs
GroupTable ==
    [feeds \in FeedLists, groupByKey \in GroupKeys |-> groupFeedsOutcomes(feeds, groupByKey)]

ApplyGroupFeeds(feeds, groupByKey) ==
    /\ groupedFeeds' \in GroupTable[feeds, groupByKey]
    /\ selectedGroupByLabel' = groupByKey
    /\ UNCHANGED <<now, outsideVars, storeVars, prefVars, sessionVars, netVars, page, isMobile,
                   searchResults, filteredGroupedFeeds, sortedGroupEntries, isLoading,
                   error, availableGroupByLabels, selectionVars, shouldRestoreScroll,
                   pendingMark, lastOp, restoredOver>>

GroupNext ==
    \E feeds \in FeedLists, groupByKey \in GroupKeys : ApplyGroupFeeds(feeds, groupByKey)

GroupSpec == Init /\ [][GroupNext]_vars

(***************************************************************************)
(* The store and the count of today through a session that lasts several   *)
(* days: the view stays subscribed to todayReadCountStore                  *)
(***************************************************************************)
\* time passes, up to a later instant
ClockJump(t) ==
    /\ t > now
    /\ now' = t
    /\ lastOp' = [OtherOp EXCEPT !.op = "clock"]
    /\ UNCHANGED <<outsideVars, storeVars, prefVars, sessionVars, netVars, page, isMobile,
                   componentVars, restoredOver>>

TodayIds == {1, 2, 3}

TodayNext ==
    \/ \E t \in Instants : ClockJump(t)
    \/ \E itemId \in TodayIds, ok \in BOOLEAN : StoreMarkRead(itemId, ok)

TodaySpec == Init /\ [][TodayNext]_vars

(***************************************************************************)
(* updateAvailableLabels alone, on any list of feeds, after the component  *)
(* has read the saved grouping label                                       *)
(***************************************************************************)
\* onMount: a new component reads the saved grouping label
LabelMount ==
    /\ page' = "list"
    /\ lastOp' = OtherOp
    /\ selectedGroupByLabel' =
          IF lsGroupByLabel # NullName THEN lsGroupByLabel ELSE DEFAULT_GROUP_BY_LABEL
    /\ availableGroupByLabels' = {DEFAULT_GROUP_BY_LABEL}
    /\ groupedFeeds' = EmptyGroups
    /\ UNCHANGED <<now, outsideVars, storeVars, prefVars, sessionVars, netVars, isMobile, searchResults,
                   filteredGroupedFeeds, sortedGroupEntries, isLoading, error,
                   selectionVars, shouldRestoreScroll, pendingMark, restoredOver>>

\* a list of feeds is loaded: updateAvailableLabels(feeds), then groupFeeds
LabelLoad(feeds, ok) ==
    /\ page = "list"
    /\ lastOp' = [OtherOp EXCEPT !.op = "updateAvailableLabels", !.ok = ok]
    /\ LET u == updateAvailableLabels(feeds, selectedGroupByLabel, lsGroupByLabel, ok)
       IN /\ availableGroupByLabels' = u.available
          /\ selectedGroupByLabel' = u.selected
          /\ lsGroupByLabel' = u.saved
          /\ groupedFeeds' = groupFeeds(feeds, u.selected)
    /\ UNCHANGED <<now, outsideVars, storeVars, lsActiveGroupName, sessionVars, netVars, page, isMobile,
                   searchResults, filteredGroupedFeeds, sortedGroupEntries, isLoading,
                   error, selectionVars, shouldRestoreScroll, pendingMark, restoredOver>>

LabelNext ==
    \/ LabelMount
    \/ \E feeds \in LabelLists, ok \in BOOLEAN : LabelLoad(feeds, ok)

LabelSpec == Init /\ [][LabelNext]_vars

(***************************************************************************)
(* The network operations: the feed query of the list page and the load of *)
(* the configuration by the three settings pages                           *)
(***************************************************************************)
\* onMount of a settings page: loadConfig, fetchConfig, fetchSources
OpenSettings(c) ==
    /\ ~settings[c].inFlight
    /\ settings[c].requests < MaxFetches
    /\ settings' = [settings EXCEPT ![c] =
                       [isLoading |-> TRUE, error |-> FALSE, inFlight |-> TRUE,
                        requests |-> settings[c].requests + 1]]
    /\ lastOp' = OtherOp
    /\ UNCHANGED <<now, notSettings, storeVars, prefVars, sessionVars, netVars, page,
                   isMobile, componentVars, restoredOver>>

\* the request of a settings page is answered 2xx
SettingsLoaded(c) ==
    /\ settings[c].inFlight
    /\ settings' = [settings EXCEPT ![c].isLoading = FALSE, ![c].inFlight = FALSE]
    /\ lastOp' = OtherOp
    /\ UNCHANGED <<now, notSettings, storeVars, prefVars, sessionVars, netVars, page,
                   isMobile, componentVars, restoredOver>>

\* the request of a settings page is answered non-2xx or fetch rejects: the
\* catch block of fetchConfig only logs
SettingsFailed(c) ==
    /\ settings[c].inFlight
    /\ settings' = [settings EXCEPT ![c].isLoading = FALSE, ![c].inFlight = FALSE,
                                    ![c].error = (c # "notifications")]
    /\ lastOp' = [OtherOp EXCEPT !.op = "settingsFailed"]
    /\ UNCHANGED <<now, notSettings, storeVars, prefVars, sessionVars, netVars, page,
                   isMobile, componentVars, restoredOver>>

NetworkNext ==
    \/ Mount
    \/ \E r \in ResponseIds : FetchDone(r)
    \/ FetchFail
    \/ handleSearch
    \/ \E c \in SettingsPages : OpenSettings(c)
    \/ \E c \in SettingsPages : SettingsLoaded(c)
    \/ \E c \in SettingsPages : SettingsFailed(c)

NetworkSpec == Init /\ [][NetworkNext]_vars

(***************************************************************************)
(* The Map objects behind the read state: the map published by             *)
(* readItemsStore, the map of the component that keeps its own read state, *)
(* and a reader that keeps the map it obtained                             *)
(***************************************************************************)
MaxObjects == 5

MapHolders == {"store", "legacy"}

\* a reader takes the map a holder currently publishes
ObtainMap(holder) ==
    /\ refs' = [refs EXCEPT !.reader = refs[holder]]
    /\ readerSeen' = heap[refs[holder]]
    /\ lastOp' = [OtherOp EXCEPT !.op = "obtainMap"]
    /\ UNCHANGED <<now, notHeap, heap, storeVars, prefVars, sessionVars, netVars, page,
                   isMobile, componentVars, restoredOver>>

\* readItemsStore.markRead: update(currentMap => ...) returns currentMap or
\* a new Map(currentMap) with the entry added
StoreMarkReadObject(itemId, ok) ==
    /\ Len(heap) < MaxObjects
    /\ lastOp' = Op("markRead", itemId, ok)
    /\ SetStore(markRead(Store, itemId, now, ok))
    /\ IF ~MapHas(heap[refs.store], itemId)
       THEN /\ heap' = Append(heap, MapSet(heap[refs.store], itemId, now))
            /\ refs' = [refs EXCEPT !.store = Len(heap) + 1]
       ELSE UNCHANGED <<heap, refs>>
    /\ UNCHANGED <<now, notHeap, readerSeen, prefVars, sessionVars, netVars, page, isMobile,
                   componentVars, restoredOver>>

\* handleMarkAsRead of the component with its own map: readItems.set(itemId,
\* nowTimestamp); readItems = new Map(readItems)
LegacyMarkAsRead(itemId) ==
    /\ Len(heap) < MaxObjects
    /\ lastOp' = [OtherOp EXCEPT !.op = "legacyMarkAsRead", !.id = itemId]
    /\ IF ~MapHas(heap[refs.legacy], itemId)
       THEN LET set == MapSet(heap[refs.legacy], itemId, now)
            IN /\ heap' = Append([heap EXCEPT ![refs.legacy] = set], set)
               /\ refs' = [refs EXCEPT !.legacy = Len(heap) + 1]
       ELSE UNCHANGED <<heap, refs>>
    /\ UNCHANGED <<now, notHeap, readerSeen, storeVars, prefVars, sessionVars, netVars, page,
                   isMobile, componentVars, restoredOver>>

ObjectNext ==
    \/ \E holder \in MapHolders : ObtainMap(holder)
    \/ \E itemId \in TodayIds, ok \in BOOLEAN : StoreMarkReadObject(itemId, ok)
    \/ \E itemId \in TodayIds : LegacyMarkAsRead(itemId)
    \/ Tick

ObjectSpec == Init /\ [][ObjectNext]_vars

(***************************************************************************)
(* simpleHash on the strings over an alphabet, and getFeedItemId on label  *)
(* maps built in any order of insertion                                    *)
(***************************************************************************)
MaxLen == 6

\* the code units of "&", "=", "a" and the largest code unit
Alphabet == {38, 61, 97, 65535}

\* the keys "B", "a", "ab", "b" and the values "" and "x"
KeyPool == {<<66>>, <<97>>, <<97, 98>>, <<98>>}

ValuePool == {<<>>, <<120>>}

\* the label maps with at most MaxItems keys, as their entries in every
\* order of insertion
LabelMaps ==
    LET entries == KeyPool \X ValuePool
        lists == UNION {[1..n -> entries] : n \in 0..MaxItems}
    IN {l \in lists : \A i, j \in DOMAIN l : l[i][1] = l[j][1] => i = j}

\* the same key/value pairs
SameLabels(a, b) == {a[i] : i \in DOMAIN a} = {b[i] : i \in DOMAIN b}

\* simpleHash is called on the string extended by one character
HashString(char) ==
    /\ Len(hashed.str) < MaxLen
    /\ LET str == Append(hashed.str, char)
       IN hashed' = [str |-> str, acc |-> hashLoop(str, Len(str)), value |-> simpleHash(str)]
    /\ lastOp' = [OtherOp EXCEPT !.op = "simpleHash"]
    /\ UNCHANGED <<now, notHash, itemKey, storeVars, prefVars, sessionVars, netVars, page,
                   isMobile, componentVars, restoredOver>>

\* getFeedItemId is called on a feed without an id
ComputeItemId(labels) ==
    /\ itemKey' = [labels |-> labels, id |-> hashFeedItemId(labels)]
    /\ lastOp' = [OtherOp EXCEPT !.op = "getFeedItemId"]
    /\ UNCHANGED <<now, notHash, hashed, storeVars, prefVars, sessionVars, netVars, page,
                   isMobile, componentVars, restoredOver>>

HashNext == \E char \in Alphabet : HashString(char)

HashSpec == Init /\ [][HashNext]_vars

ItemIdNext == \E labels \in LabelMaps : ComputeItemId(labels)

ItemIdSpec == Init /\ [][ItemIdNext]_vars

(***************************************************************************)
(* The API proxy: the server is started with some flags, then answers      *)
(* requests                                                                *)
(***************************************************************************)
\* the module is loaded: the two flags are read from the environment
LoadProxy(queryConfig, applyConfig) ==
    /\ proxyEnv' = [queryConfig |-> queryConfig, applyConfig |-> applyConfig]
    /\ proxied' = NoRequest
    /\ lastOp' = [OtherOp EXCEPT !.op = "loadProxy"]
    /\ UNCHANGED <<now, notProxy, storeVars, prefVars, sessionVars, netVars, page,
                   isMobile, componentVars, restoredOver>>

\* a request to /api/<endpointPath>; outcome is what fetch does if called
ProxyRequest(backendUrl, endpointPath, outcome) ==
    /\ LET answer == handler(backendUrl, endpointPath, proxyEnv, outcome)
       IN proxied' = [backendUrl |-> backendUrl, path |-> endpointPath,
                      forwarded |-> answer.forwarded, status |-> answer.status,
                      outcome |-> outcome]
    /\ lastOp' = [OtherOp EXCEPT !.op = "handler"]
    /\ UNCHANGED <<now, notProxy, proxyEnv, storeVars, prefVars, sessionVars, netVars, page,
                   isMobile, componentVars, restoredOver>>

ProxyNext ==
    \/ \E queryConfig, applyConfig \in BOOLEAN : LoadProxy(queryConfig, applyConfig)
    \/ \E backendUrl \in BackendUrls, endpointPath \in EndpointPaths :
          \E outcome \in FetchOutcomes(backendUrl) :
             ProxyRequest(backendUrl, endpointPath, outcome)

ProxySpec == Init /\ [][ProxyNext]_vars

(***************************************************************************)
(* The detail page, feed-detail/+page.svelte: a visit from the list in the *)
(* mobile layout, the swipes to the next item, and the return              *)
(***************************************************************************)
\* feedsList.findIndex(feed => getFeedItemId(feed) === itemId): from 0, or -1
findIndex(feedsList, itemId) ==
    IF \E i \in DOMAIN feedsList : getFeedItemId(feedsList[i]) = itemId
    THEN (CHOOSE i \in DOMAIN feedsList :
             /\ getFeedItemId(feedsList[i]) = itemId
             /\ \A j \in 1..(i - 1) : getFeedItemId(feedsList[j]) # itemId) - 1
    ELSE -1

\* feedsList.splice(index, 1), index from 0
splice(feedsList, index) ==
    SubSeq(feedsList, 1, index) \o SubSeq(feedsList, index + 2, Len(feedsList))

\* the swipe list onMount builds from the cache, the grouping context of the
\* session and the read-state map
SwipeList(currentFeedId) ==
    IF queryFeedsStore = NoData THEN <<>>
    ELSE LET feeds == Responses[queryFeedsStore]
             inGroup == IF ssSwipeLabel # NullName /\ ssSwipeName # NullName
                        THEN SelectSeq(feeds, LAMBDA feed :
                                 GroupValue(feed, ssSwipeLabel) = ssSwipeName)
                        ELSE feeds
             unread == SelectSeq(inGroup, LAMBDA feed :
                           \/ ~MapHas(readItems, getFeedItemId(feed))
                           \/ getFeedItemId(feed) = currentFeedId)
         IN SortFeeds(unread)

\* $: hasNextFeed = currentFeedIndex < feedsList.length - 1
HasNextFeed(currentFeedIndex, feedsList) == currentFeedIndex < Len(feedsList) - 1

\* onMount of the detail page; feedData is the value of selectedFeedStore,
\* whose id handleFeedClickMobile also stored as the last viewed id
DetailMount ==
    /\ page = "detail"
    /\ ~detail.mounted
    /\ LET currentFeedId == ssLastViewedId
           list == SwipeList(currentFeedId)
           found == findIndex(list, currentFeedId)
           index == IF found # -1 THEN found ELSE IF Len(list) > 0 THEN 0 ELSE -1
       IN IF currentFeedId = NoId
          THEN detail' = [NoDetail EXCEPT !.mounted = TRUE]
          ELSE detail' = [NoDetail EXCEPT !.mounted = TRUE,
                                          !.feedData = currentFeedId,
                                          !.feedsList = list,
                                          !.currentFeedIndex = index,
                                          !.hasNextFeed = HasNextFeed(index, list)]
    /\ shown' = IF ssLastViewedId = NoId THEN shown ELSE shown \cup {ssLastViewedId}
    /\ lastOp' = [OtherOp EXCEPT !.op = "detailMount"]
    /\ UNCHANGED <<now, notDetail, storeVars, prefVars, sessionVars, netVars, page,
                   isMobile, componentVars, restoredOver>>

handleTouchStart ==
    /\ page = "detail"
    /\ detail.mounted
    /\ detail' = IF detail.isTransitioning THEN detail
                 ELSE [detail EXCEPT !.isDragging = TRUE]
    /\ lastOp' = [OtherOp EXCEPT !.op = "touchStart"]
    /\ UNCHANGED <<now, notDetail, shown, storeVars, prefVars, sessionVars, netVars, page,
                   isMobile, componentVars, restoredOver>>

\* handleTouchEnd up to its await. swipe: the gesture went up far or fast
\* enough with the page scrolled to its bottom
handleTouchEnd(swipe) ==
    /\ page = "detail"
    /\ detail.mounted
    /\ detail.feedData # NoId
    /\ soundPlays < MaxReads
    /\ detail' = IF ~detail.isDragging THEN detail
                 ELSE [detail EXCEPT !.isDragging = FALSE,
                                     !.isTransitioning = swipe /\ detail.hasNextFeed]
    /\ lastOp' = [OtherOp EXCEPT !.op = "touchEnd"]
    /\ UNCHANGED <<now, notDetail, shown, storeVars, prefVars, sessionVars, netVars, page,
                   isMobile, componentVars, restoredOver>>

\* handleTouchEnd after the timer of the animation: mark the item, remove it
\* from the swipe list, navigateToFeed; then the flush, in which hasNextFeed
\* is computed again only if feedsList or currentFeedIndex was assigned a
\* new value (splice assigns nothing)
SwipeDone(ok) ==
    /\ page = "detail"
    /\ detail.isTransitioning
    /\ LET st == markRead(Store, detail.feedData, now, ok)
           currentIndexInList == findIndex(detail.feedsList, detail.feedData)
           list == IF currentIndexInList # -1
                   THEN splice(detail.feedsList, currentIndexInList)
                   ELSE detail.feedsList
           adjusted == IF currentIndexInList # -1
                          /\ currentIndexInList < detail.currentFeedIndex
                       THEN detail.currentFeedIndex - 1
                       ELSE detail.currentFeedIndex
           target == IF adjusted < Len(list) THEN adjusted
                     ELSE IF Len(list) > 0 THEN 0 ELSE -1
           index == IF target # -1 THEN target ELSE adjusted
           feedData == IF target # -1 THEN getFeedItemId(list[target + 1])
                       ELSE detail.feedData
       IN /\ SetStore(st)
          /\ detail' = [detail EXCEPT !.feedsList = list,
                                      !.currentFeedIndex = index,
                                      !.feedData = feedData,
                                      !.hasNextFeed = IF index # detail.currentFeedIndex
                                                      THEN HasNextFeed(index, list)
                                                      ELSE detail.hasNextFeed,
                                      !.isTransitioning = FALSE]
          /\ shown' = shown \cup {feedData}
          /\ lastOp' = Op("swipe", detail.feedData, ok)
    /\ UNCHANGED <<now, notDetail, prefVars, sessionVars, netVars, page, isMobile,
                   componentVars, restoredOver>>

\* the user goes back to the list when no transition is in flight
DetailBack == ~detail.isTransitioning /\ page = "detail" /\ Mount

DetailNext ==
    \/ page # "detail" /\ Mount
    \/ DetailBack
    \/ \E ok \in BOOLEAN : MarkOnReturn(ok)
    \/ \E r \in ResponseIds : FetchDone(r)
    \/ \E i \in DOMAIN FeedTable, y \in ScrollOffsets :
          handleFeedClickMobile(FeedTable[i], y)
    \/ DetailMount
    \/ handleTouchStart
    \/ \E swipe \in BOOLEAN : handleTouchEnd(swipe)
    \/ \E ok \in BOOLEAN : SwipeDone(ok)

DetailSpec == Init /\ [][DetailNext]_vars

(***************************************************************************)
(* Two tabs of one profile: each has its own readItemsStore, both share    *)
(* localStorage                                                            *)
(***************************************************************************)
Tabs == {"this", "other"}

\* the second tab loads the application: createReadItemsStore runs there
OpenOtherTab ==
    /\ ~otherTab.loaded
    /\ otherTab' = [loaded |-> TRUE, map |-> createReadItemsStore(lsReadItems).map,
                    plays |-> 0]
    /\ lsReadItems' = createReadItemsStore(lsReadItems).stored
    /\ lastOp' = [OtherOp EXCEPT !.op = "openTab"]
    /\ UNCHANGED <<now, notTabs, persisted, readItems, soundPlays, todayReadCount, prefVars,
                   sessionVars, netVars, page, isMobile, componentVars, restoredOver>>

\* readItemsStore.markRead(itemId) in one of the tabs
TabMarkRead(tab, itemId, ok) ==
    /\ tab = "other" => otherTab.loaded
    /\ LET store == IF tab = "this" THEN Store
                    ELSE [map |-> otherTab.map, stored |-> lsReadItems,
                          plays |-> otherTab.plays]
           st == markRead(store, itemId, now, ok)
       IN /\ store.plays < MaxReads
          /\ IF tab = "this"
             THEN SetStore(st) /\ UNCHANGED otherTab
             ELSE /\ otherTab' = [otherTab EXCEPT !.map = st.map, !.plays = st.plays]
                  /\ lsReadItems' = st.stored
                  /\ UNCHANGED <<readItems, soundPlays, todayReadCount>>
          /\ persisted' = IF ok /\ ~MapHas(store.map, itemId)
                          THEN persisted \cup {itemId} ELSE persisted
    /\ lastOp' = [OtherOp EXCEPT !.op = "tabMarkRead", !.id = itemId, !.ok = ok]
    /\ UNCHANGED <<now, notTabs, prefVars, sessionVars, netVars, page, isMobile,
                   componentVars, restoredOver>>

TabsNext ==
    \/ OpenOtherTab
    \/ \E tab \in Tabs, itemId \in TodayIds, ok \in BOOLEAN : TabMarkRead(tab, itemId, ok)

TabsSpec == Init /\ [][TabsNext]_vars

TypeOK ==
    /\ now \in 1..MaxClock
    /\ page \in {"away", "list", "detail"}
    /\ searchResults \in ResponseIds \cup {NoData}
    /\ queryFeedsStore \in ResponseIds \cup {NoData}
    /\ fetches \in 0..MaxFetches
    /\ staleFetches \in 0..MaxFetches
    /\ pendingMark \in ItemIds \cup {NoId}

(***************************************************************************)
(* Properties of the read-state store                                      *)
(***************************************************************************)
\* C1: markRead is idempotent. After any call markRead(itemId), a second
\* call with the same id, at any time and whatever the outcome of the write
\* to localStorage, leaves the store as the first call left it (the same
\* id -> timestamp pairs, the first call's timestamp, the same persisted
\* list, no further audible cue); and a call on an id that is already
\* present changes neither the map nor the persisted list nor the number of
\* cues played.
C1_MarkReadIdempotent ==
    [][\A itemId \in ItemIds, ok \in BOOLEAN :
          StoreMarkRead(itemId, ok) =>
              /\ MapHas(readItems, itemId) => UNCHANGED storeVars
              /\ ~MapHas(readItems, itemId) =>
                     /\ MapHas(readItems', itemId)
                     /\ MapGet(readItems', itemId) = now
                     /\ soundPlays' = soundPlays + 1
              /\ \A ts \in 1..MaxClock, ok2 \in BOOLEAN :
                     LET once == [map |-> readItems', stored |-> lsReadItems',
                                  plays |-> soundPlays']
                     IN markRead(once, itemId, ts, ok2) = once]_vars

\* C1 witness: markRead was called for an id that was already present, at a
\* later time than the call that inserted it
C1_Witness ==
    /\ lastOp.op = "markRead"
    /\ lastOp.wasRead
    /\ MapHas(readItems, lastOp.id)
    /\ MapGet(readItems, lastOp.id) < now

\* C5: without reset the in-memory ReadState only grows. In every step that
\* is not a reset, the map after the step starts with the entries of the map
\* before it (no record removed, no timestamp changed), and the map never
\* holds two records with the same id.
C5_ReadStateOnlyGrows ==
    [][/\ ~StoreReset =>
              /\ Len(readItems') >= Len(readItems)
              /\ \A i \in DOMAIN readItems : readItems'[i] = readItems[i]
       /\ \A i, j \in DOMAIN readItems' :
              readItems'[i][1] = readItems'[j][1] => i = j]_vars

\* C5 witness: two records are in the map, the last call failed to persist
\* and the clock has advanced since the first record was made
C5_Witness ==
    /\ Len(readItems) >= 2
    /\ lastOp.op = "markRead"
    /\ ~lastOp.ok
    /\ readItems[1][2] < now

(***************************************************************************)
(* Properties of the list page                                             *)
(***************************************************************************)
\* C2: desktop selection invariant. While the list is mounted (that is, in
\* every state left by a handler and the flush that ran the reconciler),
\* selectedFeedDesktop is null, or it is an item of
\* filteredGroupedFeeds[activeGroupName] whose id is not in the read-state
\* map.
C2_SelectionInvariant ==
    page = "list" =>
        \/ selectedFeedDesktop = NoFeed
        \/ /\ activeGroupName \in DOMAIN filteredGroupedFeeds
           /\ \E i \in DOMAIN filteredGroupedFeeds[activeGroupName] :
                 filteredGroupedFeeds[activeGroupName][i] = selectedFeedDesktop
           /\ getFeedItemId(selectedFeedDesktop) \notin MapKeys(readItems)

\* C2 witness: an item was marked read while the list showed a selection, and
\* a selection is still shown
C2_Witness ==
    /\ page = "list"
    /\ lastOp.op = "handleMarkAsRead"
    /\ lastOp.wasSelected
    /\ selectedFeedDesktop # NoFeed

\* C3: the filtered grouping holds, for every group of the unfiltered
\* grouping, exactly the items whose id is not in the read-state map, in the
\* order they have in the group, and it has no entry for a group whose items
\* are all read; so it holds no read item and no empty group, while the
\* unfiltered grouping keeps the fully-read group.
C3_FilterReadItems ==
    /\ DOMAIN filteredGroupedFeeds \subseteq DOMAIN groupedFeeds
    /\ \A g \in DOMAIN groupedFeeds :
          LET feeds == groupedFeeds[g]
              unread == {i \in DOMAIN feeds :
                            getFeedItemId(feeds[i]) \notin MapKeys(readItems)}
              nth(k) == CHOOSE i \in unread : Cardinality({j \in unread : j <= i}) = k
          IN IF unread = {}
             THEN g \notin DOMAIN filteredGroupedFeeds
             ELSE /\ g \in DOMAIN filteredGroupedFeeds
                  /\ Len(filteredGroupedFeeds[g]) = Cardinality(unread)
                  /\ \A k \in 1..Cardinality(unread) :
                        filteredGroupedFeeds[g][k] = feeds[nth(k)]

\* C3 witness: one group of the unfiltered grouping is fully read and has no
\* entry in the filtered grouping, another has lost some of its items
C3_Witness ==
    /\ \E g \in DOMAIN groupedFeeds : g \notin DOMAIN filteredGroupedFeeds
    /\ \E g \in DOMAIN filteredGroupedFeeds :
          Len(filteredGroupedFeeds[g]) < Len(groupedFeeds[g])

\* C4: at-least-in-memory. After markRead was called for an unread id and
\* the write to localStorage failed, the handler has completed, the
\* in-memory map holds the id, the persisted list does not, and the item is
\* in no group of the filtered grouping nor selected.
C4_AtLeastInMemory ==
    (/\ lastOp.op \in {"handleMarkAsRead", "markOnReturn"}
     /\ ~lastOp.ok
     /\ ~lastOp.wasRead)
    => /\ lastOp.id \in MapKeys(readItems)
       /\ lastOp.id \notin MapKeys(LoadReadItems(lsReadItems))
       /\ \A g \in DOMAIN filteredGroupedFeeds :
             \A i \in DOMAIN filteredGroupedFeeds[g] :
                getFeedItemId(filteredGroupedFeeds[g][i]) # lastOp.id
       /\ getFeedItemId(selectedFeedDesktop) # lastOp.id

\* C4 witness: a displayed unread item was marked read, the write failed, and
\* the item is still in the unfiltered grouping
C4_Witness ==
    /\ lastOp.op = "handleMarkAsRead"
    /\ ~lastOp.ok
    /\ ~lastOp.wasRead
    /\ \E g \in DOMAIN groupedFeeds : \E i \in DOMAIN groupedFeeds[g] :
          getFeedItemId(groupedFeeds[g][i]) = lastOp.id

\* C6: rule 5 (keep). Marking read, in the two-pane layout, an item of the
\* active group that is not the selected item leaves selectedFeedDesktop
\* unchanged (the selected item is still in the active group and unread).
C6_KeepSelection ==
    [][\A i \in DOMAIN FeedTable, ok \in BOOLEAN :
          (/\ handleMarkAsRead(FeedTable[i], ok)
           /\ ~isMobile
           /\ selectedFeedDesktop # NoFeed
           /\ getFeedItemId(selectedFeedDesktop) # getFeedItemId(FeedTable[i]))
          => selectedFeedDesktop' = selectedFeedDesktop]_vars

C8_AutoAdvance ==
    [][\A i \in DOMAIN FeedTable, ok \in BOOLEAN :
          LET unread == filteredGroupedFeeds[activeGroupName]
              k == CHOOSE n \in DOMAIN unread : unread[n] = FeedTable[i]
          IN (/\ handleMarkAsRead(FeedTable[i], ok)
              /\ ~isMobile
              /\ selectedFeedDesktop = FeedTable[i]
              /\ Len(unread) > 1)
             => /\ activeGroupName' = activeGroupName
                /\ selectedFeedDesktop' =
                       IF k < Len(unread) THEN unread[k + 1] ELSE unread[k - 1]]_vars

\* C8 witness: the selected item was marked read and the selection advanced
\* to an item of the same group that is not the group's first unread item
C8_Witness ==
    /\ lastOp.op = "handleMarkAsRead"
    /\ lastOp.wasSelected
    /\ ~isMobile
    /\ activeGroupName \in DOMAIN filteredGroupedFeeds
    /\ \E i \in DOMAIN groupedFeeds[activeGroupName] :
          getFeedItemId(groupedFeeds[activeGroupName][i]) = lastOp.id
    /\ selectedFeedDesktop # NoFeed
    /\ selectedFeedDesktop # filteredGroupedFeeds[activeGroupName][1]

\* C9: fallback. In a pass where the filtered grouping is not empty, the
\* saved preferred name is null or names no current group, and the active
\* group is null or names no current group, the active group becomes the
\* first group in the order of the group keys, and the saved preferred name
\* is left as it was.
C9_FallbackFirstGroup ==
    [][LET entryInitial == IF page = "list" THEN initialActiveGroupName
                           ELSE lsActiveGroupName
           names == DOMAIN filteredGroupedFeeds'
       IN (/\ page' = "list"
           /\ ~isLoading'
           /\ names # {}
           /\ entryInitial = NullName \/ entryInitial \notin names
           /\ activeGroupName = NullName \/ activeGroupName \notin names)
          => /\ activeGroupName' \in names
             /\ \A n \in names : localeCompare(activeGroupName', n) <= 0
             /\ initialActiveGroupName' = entryInitial]_vars

\* C9 witness: a saved preferred name that names no current group is pending
\* and the active group is the first of several groups
C9_Witness ==
    /\ page = "list"
    /\ initialActiveGroupName # NullName
    /\ Cardinality(DOMAIN filteredGroupedFeeds) > 1
    /\ initialActiveGroupName \notin DOMAIN filteredGroupedFeeds
    /\ activeGroupName = sortedGroupEntries[1]

\* C10: the saved preferred name is used at most once. In the first pass in
\* which it names a current group it becomes the active group, whatever the
\* active group was, and is cleared; until then it is kept; once cleared it
\* stays cleared for as long as the list is mounted.
C10_SavedNameUsedOnce ==
    [][LET entryInitial == IF page = "list" THEN initialActiveGroupName
                           ELSE lsActiveGroupName
           names == DOMAIN filteredGroupedFeeds'
       IN page' = "list" =>
             /\ (entryInitial # NullName /\ ~isLoading' /\ entryInitial \in names)
                    => /\ activeGroupName' = entryInitial
                       /\ initialActiveGroupName' = NullName
             /\ (entryInitial = NullName \/ isLoading' \/ entryInitial \notin names)
                    => initialActiveGroupName' = entryInitial]_vars

\* C10 witness: the last pass activated the saved preferred name in place of
\* an active group that is still among the current groups
C10_Witness ==
    /\ page = "list"
    /\ restoredOver \in DOMAIN filteredGroupedFeeds
    /\ activeGroupName # restoredOver
    /\ initialActiveGroupName = NullName

\* C11: whenever a step changes the active group (a tab click, the saved
\* preferred name, the fallback to the first group, or no group left), the
\* selected item after the step is the first item of the new active group's
\* filtered list, or null when there is no such item.
C11_ActiveGroupChangeSelectsFirst ==
    [][(page' = "list" /\ activeGroupName' # activeGroupName)
       => selectedFeedDesktop' =
              IF /\ activeGroupName' \in DOMAIN filteredGroupedFeeds'
                 /\ Len(filteredGroupedFeeds'[activeGroupName']) > 0
              THEN filteredGroupedFeeds'[activeGroupName'][1]
              ELSE NoFeed]_vars

\* C11 witness: a tab other than the first was clicked and the first item of
\* its list is selected
C11_Witness ==
    /\ lastOp.op = "tabClick"
    /\ activeGroupName # sortedGroupEntries[1]
    /\ selectedFeedDesktop = filteredGroupedFeeds[activeGroupName][1]

(***************************************************************************)
(* Properties of groupFeeds and compareFeeds                               *)
(***************************************************************************)
\* C12: groupFeeds partitions the feeds. Every feed of the list is in
\* exactly one group, once: the group keyed by the feed's value of the
\* grouping label when the feed has that label, whatever the value (the
\* empty string included), and the placeholder group only when the feed
\* lacks the label.
C12_GroupFeedsPartition ==
    [][\A feeds \in FeedLists, groupByKey \in GroupKeys :
          ApplyGroupFeeds(feeds, groupByKey) =>
              \A i \in DOMAIN feeds :
                 LET expected == IF groupByKey \in DOMAIN feeds[i].labels
                                 THEN feeds[i].labels[groupByKey]
                                 ELSE uncategorizedGroup
                 IN /\ expected \in DOMAIN groupedFeeds'
                    /\ \A g \in DOMAIN groupedFeeds' :
                          Cardinality({k \in DOMAIN groupedFeeds'[g] :
                                          groupedFeeds'[g][k] = feeds[i]})
                              = IF g = expected THEN 1 ELSE 0]_vars

\* C13: after groupFeeds every group is totally ordered by compareFeeds,
\* whatever the list (feeds whose time is no date included): for every two
\* positions i < j of a group compareFeeds(group[i], group[j]) <= 0, and
\* compareFeeds is antisymmetric and transitive on the feeds of the group.
C13_GroupsTotallyOrdered ==
    \A g \in DOMAIN groupedFeeds :
       LET group == groupedFeeds[g]
       IN /\ \A i, j \in DOMAIN group :
                i < j => compareFeeds(group[i], group[j]) <= 0
          /\ \A i, j \in DOMAIN group :
                (compareFeeds(group[i], group[j]) < 0)
                    = (compareFeeds(group[j], group[i]) > 0)
          /\ \A i, j, k \in DOMAIN group :
                (compareFeeds(group[i], group[j]) <= 0
                    /\ compareFeeds(group[j], group[k]) <= 0)
                => compareFeeds(group[i], group[k]) <= 0

(***************************************************************************)
(* Properties of the navigation to the detail page and back                *)
(***************************************************************************)
\* C14: deferred mark-read. Opening an item in the detail page
\* (handleFeedClickMobile) leaves the read-state map, the persisted list
\* and the preferences unchanged; it records the item's id, the scroll
\* offset, the grouping label, the group name and the navigation flag in
\* sessionStorage. The item is not in the read-state map while the detail
\* page shows it, and an id enters the map only by a step taken on the list.
C14_DeferredMarkRead ==
    [][/\ \A i \in DOMAIN FeedTable, y \in ScrollOffsets :
             handleFeedClickMobile(FeedTable[i], y) =>
                 /\ UNCHANGED <<storeVars, prefVars>>
                 /\ ssLastViewedId' = getFeedItemId(FeedTable[i])
                 /\ ssScroll' = y
                 /\ ssNavigating'
                 /\ ssSwipeLabel' = selectedGroupByLabel
                 /\ FeedTable[i] \in SeqToSet(groupedFeeds[ssSwipeName'])
       /\ page' = "detail" => ssLastViewedId' \notin MapKeys(readItems')
       /\ MapKeys(readItems') # MapKeys(readItems) => page = "list"]_vars

\* C14 witness: the detail page shows an item that is not read, after other
\* items were marked read on the list
C14_Witness ==
    /\ page = "detail"
    /\ ssNavigating
    /\ ssLastViewedId \in ItemIds
    /\ ssLastViewedId \notin MapKeys(readItems)
    /\ ssSwipeName # NullName
    /\ readItems # <<>>

C16_RoundTrip ==
    [][(PageLoad /\ lastOp.op = "markRead" /\ lastOp.ok /\ ~lastOp.wasRead) =>
           /\ readItems' = readItems
           /\ lsReadItems' = lsReadItems]_vars

\* C16 witness: a store whose two items were marked read at different times
\* has been created again from the text the second markRead persisted
C16_Witness ==
    /\ lastOp.op = "pageLoad"
    /\ Len(readItems) = 2
    /\ readItems[1][2] # readItems[2][2]
    /\ soundPlays = 2
    /\ lsReadItems = setItem(readItems)

\* C17: malformed persisted data. When the storage key holds a text that
\* is not parseable JSON or is no list of (itemId string, timestamp number)
\* pairs, the store created at load is empty and the key is removed.
C17_MalformedCleared ==
    [][(PageLoad /\ lsReadItems.present /\ ~WellFormed(lsReadItems)) =>
           /\ readItems' = <<>>
           /\ lsReadItems' = AbsentKey]_vars

(***************************************************************************)
(* Properties of the grouping labels                                       *)
(***************************************************************************)
\* the feeds that were loaded last
LoadedFeeds == UNION {{groupedFeeds[g][i] : i \in DOMAIN groupedFeeds[g]} : g \in DOMAIN groupedFeeds}

\* C18: the groupable labels are exactly the default key and every label
\* key other than link, title and summary_html_snippet that has a value
\* occurring on more than one of the loaded feeds.
C18_UsefulLabels ==
    availableGroupByLabels =
        {DEFAULT_GROUP_BY_LABEL}
        \cup {k \in (UNION {DOMAIN f.labels : f \in LoadedFeeds}) \ ExcludedLabels :
                 \E f1, f2 \in LoadedFeeds :
                    /\ f1 # f2
                    /\ k \in DOMAIN f1.labels
                    /\ k \in DOMAIN f2.labels
                    /\ f1.labels[k] = f2.labels[k]}

\* C19 as stated: after a load the selected grouping label is one of the
\* available labels, and when the label selected before is not retained the
\* selection is the default key and the default key is in localStorage.
C19_ResetIsPersisted ==
    [][lastOp'.op = "updateAvailableLabels" =>
           /\ selectedGroupByLabel' \in availableGroupByLabels'
           /\ selectedGroupByLabel \notin availableGroupByLabels' =>
                 /\ selectedGroupByLabel' = DEFAULT_GROUP_BY_LABEL
                 /\ lsGroupByLabel' = DEFAULT_GROUP_BY_LABEL]_vars

\* C19 amended: after a load the selected grouping label is one of the
\* available labels; a label that is still available stays selected and
\* localStorage is not written; otherwise the selection is the default key,
\* and the default key is in localStorage when the write succeeded, the
\* former value when it failed.
C19_SelectionAvailable ==
    [][lastOp'.op = "updateAvailableLabels" =>
           /\ selectedGroupByLabel' \in availableGroupByLabels'
           /\ IF selectedGroupByLabel \in availableGroupByLabels'
              THEN /\ selectedGroupByLabel' = selectedGroupByLabel
                   /\ lsGroupByLabel' = lsGroupByLabel
              ELSE /\ selectedGroupByLabel' = DEFAULT_GROUP_BY_LABEL
                   /\ lsGroupByLabel' = IF lastOp'.ok THEN DEFAULT_GROUP_BY_LABEL
                                        ELSE lsGroupByLabel]_vars

\* C19 witness: the saved label category was selected, a list in which no
\* category is shared was loaded and the write of the reset value failed
C19_Witness ==
    /\ lastOp.op = "updateAvailableLabels"
    /\ ~lastOp.ok
    /\ LoadedFeeds # {}
    /\ "category" \notin availableGroupByLabels
    /\ selectedGroupByLabel = DEFAULT_GROUP_BY_LABEL
    /\ lsGroupByLabel = "category"

(***************************************************************************)
(* Properties of the count of today                                        *)
(***************************************************************************)
\* 00:00 local time of the day of t
localMidnight(t) == LocalMidnights[LocalDate(t)]

C21_FailureIsShown ==
    [][/\ FetchFail =>
             /\ ~isLoading'
             /\ error'
             /\ searchResults' = NoData
             /\ queryFeedsStore' = NoData
       /\ \A c \in SettingsPages :
             SettingsFailed(c) => ~settings'[c].isLoading /\ settings'[c].error
       /\ fetches' # fetches => (Mount \/ handleSearch)
       /\ \A c \in SettingsPages :
             settings'[c].requests # settings[c].requests => OpenSettings(c)]_vars

(***************************************************************************)
(* Properties of the Map objects                                           *)
(***************************************************************************)
\* C22: replace, don't mutate. A map that a reader obtained keeps the
\* entries it had when the reader obtained it, whatever is marked read
\* afterwards, and marking an unread item read publishes another object.
C22_ReplaceDontMutate ==
    [][/\ (refs.reader # NoObject /\ refs'.reader = refs.reader) =>
             heap'[refs.reader] = readerSeen
       /\ \A holder \in MapHolders :
             heap'[refs'[holder]] # heap[refs[holder]] => refs'[holder] # refs[holder]]_vars

(***************************************************************************)
(* Properties of the identifiers                                           *)
(***************************************************************************)
\* C23: getFeedItemId does not depend on the order of the label keys: every
\* label map with the same key/value pairs, inserted in any order, gets the
\* identifier that was computed, and so does the same map again.
C23_IdIgnoresKeyOrder ==
    \A labels \in LabelMaps :
       SameLabels(labels, itemKey.labels) => hashFeedItemId(labels) = itemKey.id

\* C23 witness: the identifier of a map with three labels that were not
\* inserted in the order of their keys
C23_Witness ==
    /\ lastOp.op = "getFeedItemId"
    /\ Len(itemKey.labels) = 3
    /\ StrLess(itemKey.labels[3][1], itemKey.labels[1][1])
    /\ StrLess(itemKey.labels[1][1], itemKey.labels[2][1])
    /\ Len(itemKey.id) > 1

\* the DJB2 recurrence modulo 2^32: 5381, then acc * 33 + charCode
RECURSIVE DJB2(_)
DJB2(str) ==
    IF str = <<>> THEN Norm(0, 5381)
    ELSE LET acc == DJB2(SubSeq(str, 1, Len(str) - 1))
         IN ToUint32(Norm(acc.hi * 33, acc.lo * 33 + str[Len(str)]))

\* C26: simpleHash(str) is the DJB2 recurrence reduced modulo 2^32, an
\* integer in [0, 2^32), also when the accumulator of the loop has left the
\* range of 32 bits.
C26_SimpleHashIsDJB2 ==
    /\ hashed.value = DJB2(hashed.str)
    /\ hashed.value.hi \in 0..(Two16 - 1)
    /\ hashed.value.lo \in 0..(Two16 - 1)

\* C26 witness: a string of the greatest length for which the accumulator
\* of the loop ended negative, outside [0, 2^32)
C26_Witness ==
    /\ lastOp.op = "simpleHash"
    /\ Len(hashed.str) = MaxLen
    /\ hashed.acc.hi < 0
    /\ hashed.value # hashed.acc

(***************************************************************************)
(* Properties of the comparison of feeds whose time is no date             *)
(***************************************************************************)
\* C24: fail-soft comparison. For every two feeds of a group of which at
\* least one has a time that is no date, compareFeeds returns a number, the
\* result of comparing the two titles only; and groupFeeds, which sorts
\* every group, leaves a result for every list, also one with such feeds.
C24_FailSoftComparison ==
    /\ \A g \in DOMAIN groupedFeeds :
          \A i, j \in DOMAIN groupedFeeds[g] :
             LET a == groupedFeeds[g][i]
                 b == groupedFeeds[g][j]
             IN (a.time = InvalidDate \/ b.time = InvalidDate)
                   => /\ compareFeeds(a, b) \in {-1, 0, 1}
                      /\ compareFeeds(a, b) = localeCompare(TitleOf(a), TitleOf(b))
    /\ \A feeds \in FeedLists, groupByKey \in GroupKeys : GroupTable[feeds, groupByKey] # {}

\* C24 witness: a sorted group of three feeds, one with a time and two whose
\* time is no date
C24_Witness ==
    \E g \in DOMAIN groupedFeeds :
       /\ Len(groupedFeeds[g]) = 3
       /\ \E i, j, k \in DOMAIN groupedFeeds[g] :
             /\ i # j
             /\ groupedFeeds[g][i].time = InvalidDate
             /\ groupedFeeds[g][j].time = InvalidDate
             /\ groupedFeeds[g][k].time # InvalidDate

(***************************************************************************)
(* Properties of the API proxy                                             *)
(***************************************************************************)
\* the path is one the flags of the environment disable
DisabledPath ==
    \/ proxyEnv.queryConfig /\ Len(proxied.path) > 0 /\ proxied.path[1] = "query_config"
    \/ proxyEnv.applyConfig /\ Len(proxied.path) > 0 /\ proxied.path[1] = "apply_config"

\* backendUrl is missing or no valid URL
BadBackendUrl == proxied.backendUrl \in {NoParam, "", "/backend"}

\* C25: the status of every answer of the proxy follows the order of the
\* checks: 400 when backendUrl is missing or invalid, whatever the path;
\* otherwise 404 when the path is disabled by a flag; otherwise the status
\* of the backend when fetch resolved, 503 when the connection was refused,
\* 500 on any other failure. A request the checks answer with 400 or 404 is
\* not forwarded.
C25_ProxyStatusOrder ==
    lastOp.op = "handler" =>
       /\ BadBackendUrl => proxied.status = 400 /\ ~proxied.forwarded
       /\ (~BadBackendUrl /\ DisabledPath) => proxied.status = 404 /\ ~proxied.forwarded
       /\ (~BadBackendUrl /\ ~DisabledPath) =>
             /\ proxied.forwarded
             /\ proxied.outcome.status \in BackendStatuses
                   => proxied.status = proxied.outcome.status
             /\ proxied.outcome.code = "ECONNREFUSED" => proxied.status = 503
             /\ proxied.outcome.code \in {"ETIMEDOUT", "none"} => proxied.status = 500

\* C25 witness: a request without a usable backendUrl for a disabled path
C25_Witness ==
    /\ lastOp.op = "handler"
    /\ BadBackendUrl
    /\ DisabledPath
    /\ proxied.status = 400

(***************************************************************************)
(* Properties of the visit of the detail page                              *)
(***************************************************************************)
\* C27: after a visit of the detail page in the mobile layout (zero or more
\* swipes to the next item) and the return to the list with the cache, once
\* the list has rendered again with the item to mark handled, every item
\* the detail page displayed during the visit is in the read-state map, the
\* one displayed last included.
C27_DisplayedItemsAreRead ==
    (page = "list" /\ pendingMark = NoId /\ searchResults # NoData)
       => \A itemId \in shown : MapHas(readItems, itemId)

\* C30: swipe transitions are serialized. While a transition is in flight
\* the touch handlers change nothing; a completed transition marks the
\* displayed item and no other, removes it from the swipe list, displays
\* the item that followed it in the list, and leaves
\* 0 <= currentFeedIndex < feedsList.length; a swipe on the last item of the
\* list starts no transition.
C30_SwipesSerialized ==
    [][/\ (detail.isTransitioning /\ lastOp'.op # "swipe") => detail' = detail
       /\ lastOp'.op = "swipe" =>
             LET k == findIndex(detail.feedsList, detail.feedData)
             IN /\ MapKeys(readItems') = MapKeys(readItems) \cup {detail.feedData}
                /\ findIndex(detail'.feedsList, detail.feedData) = -1
                /\ k # -1
                /\ k + 2 <= Len(detail.feedsList)
                /\ detail'.feedData = getFeedItemId(detail.feedsList[k + 2])
                /\ detail'.currentFeedIndex >= 0
                /\ detail'.currentFeedIndex < Len(detail'.feedsList)
       /\ (lastOp'.op = "touchEnd"
             /\ detail.currentFeedIndex = Len(detail.feedsList) - 1)
          => /\ ~detail'.isTransitioning
             /\ [detail' EXCEPT !.isDragging = FALSE] = [detail EXCEPT !.isDragging = FALSE]
             /\ UNCHANGED <<storeVars, shown>>]_vars

(***************************************************************************)
(* Properties of the cache of the query                                    *)
(***************************************************************************)
\* C28: under every interleaving of the completions of the queries, a list
\* destroyed with its request in flight and mounted again included, the
\* cache holds null or the response of the query issued last: the
\* completion of the request of a destroyed list does not change the cache
\* once a list is mounted again, and when the list displays results the
\* cache is null or these results.
C28_CacheIsLatestQuery ==
    [][/\ (staleFetches' < staleFetches /\ page = "list")
             => queryFeedsStore' = queryFeedsStore
       /\ (page' = "list" /\ ~isLoading' /\ searchResults' # NoData)
             => queryFeedsStore' \in {NoData, searchResults'}]_vars

(***************************************************************************)
(* Properties of two tabs that share localStorage                          *)
(***************************************************************************)
\* C29: with two tabs that each loaded the read-state store once and then
\* interleave markRead calls, no persisted record is lost: every id whose
\* markRead was written to localStorage by either tab is in the persisted
\* list after any later markRead of the other tab.
C29_NoPersistedRecordLost ==
    \A itemId \in persisted : MapHas(LoadReadItems(lsReadItems), itemId)

====
